---------------------------- MODULE Spec2Model ----------------------------
(***************************************************************************)
(* SwiftShot interactive capture-target selector.                          *)
(*                                                                         *)
(* Models src/SwiftShot/overlay.py (RegionSelector), window_picker.py      *)
(* (RectAnimator, WindowPicker) and the orchestration in app.py            *)
(* (SwiftShotApp), on the win32 platform with Qt 5 geometry semantics.    *)
(***************************************************************************)
EXTENDS Integers, Sequences, FiniteSets, TLC

(***************************************************************************)
(* Bounds of the model.                                                    *)
(***************************************************************************)
MaxFreehandMoves == 1      \* pointer moves recorded in one freehand drag
MaxOverlays == 3           \* overlay instances constructed in one behaviour
MaxRequests == 2           \* capture requests issued in one behaviour
MaxDrill == 2                \* depth of the drill stack of a picker
MaxTicks == 2              \* clock advances in one behaviour

(***************************************************************************)
(* Qt value types.  A QPoint is [x, y].  A QRect stores its inclusive      *)
(* corners (x1, y1, x2, y2), so width = x2 - x1 + 1.                       *)
(***************************************************************************)
Pt(x, y) == [x |-> x, y |-> y]

Min(a, b) == IF a <= b THEN a ELSE b

Max(a, b) == IF a >= b THEN a ELSE b

Abs(a) == IF a < 0 THEN -a ELSE a

\* QRect(): the null rectangle (0, 0, -1, -1)
NullRect == [x1 |-> 0, y1 |-> 0, x2 |-> -1, y2 |-> -1]

\* QRect(QPoint topLeft, QPoint bottomRight)
RectPP(p, q) == [x1 |-> p.x, y1 |-> p.y, x2 |-> q.x, y2 |-> q.y]

\* QRect(x, y, w, h)
RectXYWH(x, y, w, h) == [x1 |-> x, y1 |-> y, x2 |-> x + w - 1, y2 |-> y + h - 1]

RectX(r) == r.x1

RectY(r) == r.y1

RectWidth(r) == r.x2 - r.x1 + 1

RectHeight(r) == r.y2 - r.y1 + 1

\* QRect::isEmpty
RectIsEmpty(r) == r.x1 > r.x2 \/ r.y1 > r.y2

\* a normalization that makes the size positive but keeps the first corner
RectNormalized_SizeOnly(r) ==
    [x1 |-> r.x1, y1 |-> r.y1,
     x2 |-> r.x1 + Abs(r.x2 - r.x1), y2 |-> r.y1 + Abs(r.y2 - r.y1)]

\* QRect::normalized (Qt 5): corners are swapped only when x2 < x1 - 1
RectNormalized(r) ==
    [x1 |-> IF r.x2 < r.x1 - 1 THEN r.x2 ELSE r.x1,
     x2 |-> IF r.x2 < r.x1 - 1 THEN r.x1 ELSE r.x2,
     y1 |-> IF r.y2 < r.y1 - 1 THEN r.y2 ELSE r.y1,
     y2 |-> IF r.y2 < r.y1 - 1 THEN r.y1 ELSE r.y2]

\* QRect::contains(x, y)
RectContains(r, x, y) ==
    LET l == IF r.x2 < r.x1 - 1 THEN r.x2 ELSE r.x1
        rr == IF r.x2 < r.x1 - 1 THEN r.x1 ELSE r.x2
        t == IF r.y2 < r.y1 - 1 THEN r.y2 ELSE r.y1
        b == IF r.y2 < r.y1 - 1 THEN r.y1 ELSE r.y2
    IN  x >= l /\ x <= rr /\ y >= t /\ y <= b

\* QRect::united, for non-null operands
RectUnited(a, b) ==
    [x1 |-> Min(a.x1, b.x1), y1 |-> Min(a.y1, b.y1),
     x2 |-> Max(a.x2, b.x2), y2 |-> Max(a.y2, b.y2)]

\* QRect::intersected
RectIntersected(a, b) ==
    IF RectIsEmpty(a) \/ RectIsEmpty(b) THEN NullRect
    ELSE LET r == [x1 |-> Max(a.x1, b.x1), y1 |-> Max(a.y1, b.y1),
                   x2 |-> Min(a.x2, b.x2), y2 |-> Min(a.y2, b.y2)]
         IN  IF RectIsEmpty(r) THEN NullRect ELSE r

\* Python None / a value, as a sequence of length 0 or 1
None == << >>

Some(v) == << v >>


(***************************************************************************)
(* State.                                                                  *)
(***************************************************************************)
VARIABLES
    env,        \* the host: screens, OS windows, positions the pointer may take
    app,        \* SwiftShotApp: _overlay and _window_picker references
    regions,    \* RegionSelector instances, by instance id
    pickers,    \* WindowPicker instances, by instance id
    timers,     \* pending QTimer.singleShot(50, ...) callbacks, in start order
    requests,   \* pending _capture_with_delay callbacks
    shots,      \* snapshots taken by CaptureManager.capture_fullscreen, in order
    cursor,     \* the OS cursor position (QCursor.pos), in screen coordinates
    now,        \* time.monotonic(), in clock quanta
    delivered,  \* history: the callbacks that ran and the signals that reached their slot, in order
    pipeline,   \* history: crops handed to the save/edit pipeline, in order
    drag,       \* history: raw press and release points of the last drag
    issued      \* history: number of capture requests issued

vars == << env, app, regions, pickers, timers, requests, shots, cursor, now,
           delivered, pipeline, drag, issued >>

(***************************************************************************)
(* utils.virtual_geometry: the union of all screen geometries.             *)
(***************************************************************************)
RECURSIVE UniteFrom(_, _, _)
UniteFrom(screens, k, acc) ==
    IF k > Len(screens) THEN acc
    ELSE UniteFrom(screens, k + 1, RectUnited(acc, screens[k]))

virtual_geometry(screens) ==
    IF Len(screens) = 0 THEN RectXYWH(0, 0, 1920, 1080)
    ELSE UniteFrom(screens, 2, screens[1])

(***************************************************************************)
(* The window hierarchy source.  An OS window is                           *)
(* [hwnd, parent, visible, title_len, l, t, r, b] with its RECT as         *)
(* DwmGetWindowAttribute / GetWindowRect report it, in screen coordinates. *)
(***************************************************************************)
Win(h, par, vis, tl, l, t, r, b) ==
    [hwnd |-> h, parent |-> par, visible |-> vis, title_len |-> tl,
     l |-> l, t |-> t, r |-> r, b |-> b]

\* EnumWindows: the top-level windows, in enumeration order
EnumWindows(e) == SelectSeq(e.windows, LAMBDA w : w.parent = 0)

\* WindowPicker._get_win_rect
get_win_rect(w) == RectXYWH(w.l, w.t, w.r - w.l, w.b - w.t)

(***************************************************************************)
(* RegionSelector (overlay.py).                                            *)
(***************************************************************************)
SNAP_DISTANCE == 8

RECURSIVE SortedSeq(_)
SortedSeq(S) ==
    IF S = {} THEN << >>
    ELSE LET m == CHOOSE a \in S : \A b \in S : a <= b
         IN  << m >> \o SortedSeq(S \ {m})

\* RegionSelector._detect_snap_edges: (edges_v, edges_h) as sorted lists
detect_snap_edges(e, geo) ==
    LET tops == EnumWindows(e)
        ok(w) == /\ w.visible
                 /\ w.title_len # 0
                 /\ w.r - w.l > 5
                 /\ w.b - w.t > 5
        used == {k \in 1..Len(tops) : ok(tops[k])}
        ev == UNION {{tops[k].l - RectX(geo), tops[k].l - RectX(geo) + (tops[k].r - tops[k].l)} : k \in used}
        eh == UNION {{tops[k].t - RectY(geo), tops[k].t - RectY(geo) + (tops[k].b - tops[k].t)} : k \in used}
    IN  [v |-> SortedSeq(ev), h |-> SortedSeq(eh)]

\* RegionSelector.__init__
NewRegionSelector(screenshot, mode, e) ==
    LET geo == virtual_geometry(e.screens)
        edges == detect_snap_edges(e, geo)
    IN  [screenshot |-> screenshot, mode |-> mode, selecting |-> FALSE,
         start_pos |-> Pt(0, 0), end_pos |-> Pt(0, 0), current_pos |-> Pt(0, 0),
         freehand_points |-> << >>, snap_enabled |-> TRUE,
         snap_edges_h |-> edges.h, snap_edges_v |-> edges.v,
         snapped_x |-> None, snapped_y |-> None,
         desktop_geo |-> geo, ocr_mode |-> FALSE, visible |-> FALSE]

\* a loop that answers the edge of the list nearest to c within SNAP_DISTANCE
NearestEdgeWithin(edges, k, c) ==
    LET near == {j \in 1..Len(edges) : Abs(c - edges[j]) <= SNAP_DISTANCE}
    IN  IF near = {} THEN None
        ELSE Some(edges[CHOOSE j \in near :
                          \A m \in near : Abs(c - edges[j]) <= Abs(c - edges[m])])

\* the loop of _snap_point: the first edge of the list within SNAP_DISTANCE
RECURSIVE FirstEdgeWithin(_, _, _)
FirstEdgeWithin(edges, k, c) ==
    IF k > Len(edges) THEN None
    ELSE IF Abs(c - edges[k]) <= SNAP_DISTANCE THEN Some(edges[k])
    ELSE FirstEdgeWithin(edges, k + 1, c)

\* a query that snaps whether or not snapping is enabled
snap_point_Always(r, pos) ==
    LET fx == FirstEdgeWithin(r.snap_edges_v, 1, pos.x)
        fy == FirstEdgeWithin(r.snap_edges_h, 1, pos.y)
    IN  [pos |-> Pt(IF fx = None THEN pos.x ELSE fx[1],
                    IF fy = None THEN pos.y ELSE fy[1]),
         snapped_x |-> fx, snapped_y |-> fy]

\* a query that snaps the vertical coordinate only where the horizontal one snapped
snap_point_Coupled(r, pos) ==
    IF ~r.snap_enabled
    THEN [pos |-> pos, snapped_x |-> r.snapped_x, snapped_y |-> r.snapped_y]
    ELSE LET fx == FirstEdgeWithin(r.snap_edges_v, 1, pos.x)
             fy == IF fx = None THEN None ELSE FirstEdgeWithin(r.snap_edges_h, 1, pos.y)
         IN  [pos |-> Pt(IF fx = None THEN pos.x ELSE fx[1],
                         IF fy = None THEN pos.y ELSE fy[1]),
              snapped_x |-> fx, snapped_y |-> fy]

\* a query that lets go of an axis the previous query snapped
snap_point_Sticky(r, pos) ==
    IF ~r.snap_enabled
    THEN [pos |-> pos, snapped_x |-> r.snapped_x, snapped_y |-> r.snapped_y]
    ELSE LET fx == IF r.snapped_x # None THEN None
                   ELSE FirstEdgeWithin(r.snap_edges_v, 1, pos.x)
             fy == IF r.snapped_y # None THEN None
                   ELSE FirstEdgeWithin(r.snap_edges_h, 1, pos.y)
         IN  [pos |-> Pt(IF fx = None THEN pos.x ELSE fx[1],
                         IF fy = None THEN pos.y ELSE fy[1]),
              snapped_x |-> fx, snapped_y |-> fy]

\* RegionSelector._snap_point: the returned point and the guide fields it leaves
snap_point(r, pos) ==
    IF ~r.snap_enabled
    THEN [pos |-> pos, snapped_x |-> r.snapped_x, snapped_y |-> r.snapped_y]
    ELSE LET fx == FirstEdgeWithin(r.snap_edges_v, 1, pos.x)
             fy == FirstEdgeWithin(r.snap_edges_h, 1, pos.y)
         IN  [pos |-> Pt(IF fx = None THEN pos.x ELSE fx[1],
                         IF fy = None THEN pos.y ELSE fy[1]),
              snapped_x |-> fx, snapped_y |-> fy]

\* QPainterPath.boundingRect().toAlignedRect() of the polyline through pts
RECURSIVE PathBounds(_, _, _)
PathBounds(pts, k, acc) ==
    IF k > Len(pts) THEN acc
    ELSE PathBounds(pts, k + 1,
            [minx |-> Min(acc.minx, pts[k].x), maxx |-> Max(acc.maxx, pts[k].x),
             miny |-> Min(acc.miny, pts[k].y), maxy |-> Max(acc.maxy, pts[k].y)])

boundingRect(pts) ==
    LET b == PathBounds(pts, 2, [minx |-> pts[1].x, maxx |-> pts[1].x,
                                 miny |-> pts[1].y, maxy |-> pts[1].y])
    IN  RectXYWH(b.minx, b.miny, b.maxx - b.minx, b.maxy - b.miny)

\* what a handler leaves: the instance, and the signal it schedules (if any)
Out(r, sig, rect) == [r |-> r, sig |-> sig, rect |-> rect]

\* a press handler that anchors the selection at the raw press position
Region_press_RawAnchor(r, button, pos) ==
    IF button = "Left"
    THEN Out([r EXCEPT !.selecting = TRUE, !.start_pos = pos, !.end_pos = pos,
                       !.freehand_points = IF r.mode = "freehand" THEN << pos >> ELSE @],
             "none", NullRect)
    ELSE IF button = "Right"
    THEN Out([r EXCEPT !.visible = FALSE], "cancelled", NullRect)
    ELSE Out(r, "none", NullRect)

\* a press handler whose right-click cancel leaves the overlay shown
Region_press_CancelShown(r, button, pos) ==
    IF button = "Left"
    THEN Out([r EXCEPT !.selecting = TRUE, !.start_pos = pos, !.end_pos = pos],
             "none", NullRect)
    ELSE IF button = "Right" THEN Out(r, "cancelled", NullRect)
    ELSE Out(r, "none", NullRect)

\* RegionSelector.mousePressEvent
Region_press(r, button, pos) ==
    IF button = "Left"
    THEN LET s == IF r.mode = "rectangle" THEN snap_point(r, pos)
                  ELSE [pos |-> pos, snapped_x |-> r.snapped_x, snapped_y |-> r.snapped_y]
         IN  Out([r EXCEPT !.selecting = TRUE,
                           !.start_pos = s.pos, !.end_pos = s.pos,
                           !.snapped_x = s.snapped_x, !.snapped_y = s.snapped_y,
                           !.freehand_points = IF r.mode = "freehand" THEN << pos >> ELSE @],
                 "none", NullRect)
    ELSE IF button = "Right"
    THEN Out([r EXCEPT !.visible = FALSE], "cancelled", NullRect)
    ELSE Out(r, "none", NullRect)

\* RegionSelector.mouseMoveEvent
\* a move handler that tracks the end point whether or not a drag is active
Region_move_TracksEnd(r, pos) ==
    LET s == snap_point(r, pos)
    IN  [r EXCEPT !.current_pos = pos, !.end_pos = s.pos,
                  !.snapped_x = s.snapped_x, !.snapped_y = s.snapped_y,
                  !.freehand_points = IF r.selecting /\ r.mode = "freehand"
                                      THEN Append(@, pos) ELSE @]

Region_move(r, pos) ==
    LET s == snap_point(r, pos)
    IN  IF r.selecting
        THEN IF r.mode = "rectangle"
             THEN [r EXCEPT !.current_pos = pos, !.end_pos = s.pos,
                            !.snapped_x = s.snapped_x, !.snapped_y = s.snapped_y]
             ELSE [r EXCEPT !.current_pos = pos, !.end_pos = pos,
                            !.freehand_points = IF r.mode = "freehand" THEN Append(@, pos) ELSE @]
        ELSE [r EXCEPT !.current_pos = pos,
                       !.snapped_x = s.snapped_x, !.snapped_y = s.snapped_y]

\* a size test whose threshold is one pixel higher
BigEnough_Above3(rect) == RectWidth(rect) > 3 /\ RectHeight(rect) > 3

\* a size test that lets a selection of 2 px pass
BigEnough_AtLeast2(rect) == RectWidth(rect) >= 2 /\ RectHeight(rect) >= 2

\* the size test of mouseReleaseEvent
BigEnough(rect) == RectWidth(rect) > 2 /\ RectHeight(rect) > 2

\* an emission that moves the rectangle by the origin of the virtual desktop
emitted_rect_Translated(r, rect) ==
    RectXYWH(RectX(rect) + RectX(r.desktop_geo), RectY(rect) + RectY(r.desktop_geo),
             RectWidth(rect), RectHeight(rect))

\* the rectangle handed to region_selected.emit: a copy of the selection
emitted_rect(r, rect) == rect

\* a release handler that adds the release point to the freehand polyline
Region_release_WithReleasePoint(r, button, pos) ==
    IF button = "Left" /\ r.selecting
    THEN LET s == IF r.mode = "rectangle" THEN snap_point(r, pos)
                  ELSE [pos |-> pos, snapped_x |-> r.snapped_x, snapped_y |-> r.snapped_y]
             r1 == [r EXCEPT !.selecting = FALSE, !.end_pos = s.pos,
                             !.snapped_x = s.snapped_x, !.snapped_y = s.snapped_y,
                             !.visible = FALSE]
         IN  IF r.mode = "freehand" /\ r.freehand_points # << >>
             THEN LET bounding == boundingRect(Append(r.freehand_points, pos))
                  IN  IF BigEnough(bounding)
                      THEN Out(r1, "region_selected", emitted_rect(r1, bounding))
                      ELSE Out(r1, "cancelled", NullRect)
             ELSE LET selection == RectNormalized(RectPP(r1.start_pos, r1.end_pos))
                  IN  IF BigEnough(selection)
                      THEN Out(r1, "region_selected", emitted_rect(r1, selection))
                      ELSE Out(r1, "cancelled", NullRect)
    ELSE Out(r, "none", NullRect)

\* RegionSelector.mouseReleaseEvent
Region_release(r, button, pos) ==
    IF button = "Left" /\ r.selecting
    THEN LET s == IF r.mode = "rectangle" THEN snap_point(r, pos)
                  ELSE [pos |-> pos, snapped_x |-> r.snapped_x, snapped_y |-> r.snapped_y]
             r1 == [r EXCEPT !.selecting = FALSE, !.end_pos = s.pos,
                             !.snapped_x = s.snapped_x, !.snapped_y = s.snapped_y,
                             !.visible = FALSE]
         IN  IF r.mode = "freehand" /\ r.freehand_points # << >>
             THEN LET bounding == boundingRect(r.freehand_points)
                  IN  IF BigEnough(bounding)
                      THEN Out(r1, "region_selected", emitted_rect(r1, bounding))
                      ELSE Out(r1, "cancelled", NullRect)
             ELSE LET selection == RectNormalized(RectPP(r1.start_pos, r1.end_pos))
                  IN  IF BigEnough(selection)
                      THEN Out(r1, "region_selected", emitted_rect(r1, selection))
                      ELSE Out(r1, "cancelled", NullRect)
    ELSE Out(r, "none", NullRect)

\* a key handler that ignores Escape while a drag is in progress
Region_key_EscapeIdleOnly(r, key) ==
    IF key = "Escape" /\ ~r.selecting
    THEN Out([r EXCEPT !.visible = FALSE], "cancelled", NullRect)
    ELSE IF key = "Space" THEN Out([r EXCEPT !.visible = FALSE], "switch_to_window", NullRect)
    ELSE IF key = "S" THEN Out([r EXCEPT !.snap_enabled = ~@], "none", NullRect)
    ELSE Out(r, "none", NullRect)

\* RegionSelector.keyPressEvent
Region_key(r, key) ==
    IF key = "Escape" THEN Out([r EXCEPT !.visible = FALSE], "cancelled", NullRect)
    ELSE IF key = "Space" THEN Out([r EXCEPT !.visible = FALSE], "switch_to_window", NullRect)
    ELSE IF key = "S" THEN Out([r EXCEPT !.snap_enabled = ~@], "none", NullRect)
    ELSE Out(r, "none", NullRect)

\* QTimer.singleShot(50, lambda: <signal>.emit(...)) of instance id
Deferred(kind, id, out) ==
    IF out.sig = "none" THEN << >>
    ELSE << [cb |-> out.sig, kind |-> kind, id |-> id, rect |-> out.rect, shot |-> 0] >>


(***************************************************************************)
(* Exact arithmetic for the animator's floating-point rectangles: a value  *)
(* is a reduced fraction [n, d] with d > 0.                                *)
(***************************************************************************)
RECURSIVE Gcd(_, _)
Gcd(a, b) == IF b = 0 THEN a ELSE Gcd(b, a % b)

Frac(n, d) ==
    LET g == Gcd(Abs(n), d)
    IN  IF g = 0 THEN [n |-> 0, d |-> 1] ELSE [n |-> n \div g, d |-> d \div g]

FInt(k) == [n |-> k, d |-> 1]

FAdd(a, b) ==
    LET g == Gcd(a.d, b.d)
    IN  Frac(a.n * (b.d \div g) + b.n * (a.d \div g), (a.d \div g) * b.d)

FSub(a, b) == FAdd(a, [n |-> -b.n, d |-> b.d])

FMul(a, b) ==
    LET g1 == Gcd(Abs(a.n), b.d)
        g2 == Gcd(Abs(b.n), a.d)
        h1 == IF g1 = 0 THEN 1 ELSE g1
        h2 == IF g2 = 0 THEN 1 ELSE g2
    IN  Frac((a.n \div h1) * (b.n \div h2), (a.d \div h2) * (b.d \div h1))

FLeq(a, b) == a.n * b.d <= b.n * a.d

FLess(a, b) == a.n * b.d < b.n * a.d

\* QRectF(x, y, w, h)
RectF(x, y, w, h) == [x |-> x, y |-> y, w |-> w, h |-> h]

\* QRectF()
NullRectF == RectF(FInt(0), FInt(0), FInt(0), FInt(0))

\* QRectF(QRect)
ToRectF(r) == RectF(FInt(RectX(r)), FInt(RectY(r)), FInt(RectWidth(r)), FInt(RectHeight(r)))

\* QRectF::isEmpty
RectFIsEmpty(r) == r.w.n <= 0 \/ r.h.n <= 0

(***************************************************************************)
(* RectAnimator (window_picker.py).  Time is counted in milliseconds.     *)
(***************************************************************************)
DURATION_MS == 700

\* the model's clock advances in steps of half the animation's duration
Quantum == DURATION_MS \div 2

\* RectAnimator.__init__
NewRectAnimator ==
    [start_rect |-> NullRectF, end_rect |-> NullRectF, current_rect |-> NullRectF,
     start_time |-> 0, active |-> FALSE]

\* RectAnimator.animate_to
animate_to(a, target, t) ==
    IF RectFIsEmpty(a.current_rect)
    THEN [a EXCEPT !.current_rect = ToRectF(target), !.end_rect = ToRectF(target)]
    ELSE IF ToRectF(target) = a.end_rect THEN a
    ELSE [a EXCEPT !.start_rect = a.current_rect, !.end_rect = ToRectF(target),
                   !.start_time = t, !.active = TRUE]

\* RectAnimator.animate_from_cursor
animate_from_cursor(a, cursor_pos, target, t) ==
    LET s == RectF(FInt(cursor_pos.x), FInt(cursor_pos.y), FInt(0), FInt(0))
    IN  [a EXCEPT !.start_rect = s, !.end_rect = ToRectF(target),
                  !.current_rect = s, !.start_time = t, !.active = TRUE]

\* a cubic ease-out
quintic_ease_out_Cubic(t) ==
    LET u == FSub(t, FInt(1))
    IN  FAdd(FMul(FMul(u, u), u), FInt(1))

\* RectAnimator._quintic_ease_out
quintic_ease_out(t) ==
    LET u == FSub(t, FInt(1))
    IN  FAdd(FMul(FMul(FMul(FMul(u, u), u), u), u), FInt(1))

\* one interpolated field of tick
Lerp(s, e, k) == FAdd(s, FMul(FSub(e, s), k))

\* a tick that stays active, on the interpolated rectangle, at the end
tick_NeverDone(a, t) ==
    IF ~a.active THEN [a |-> a, repaint |-> FALSE]
    ELSE LET elapsed == t - a.start_time
             tt == IF elapsed >= DURATION_MS THEN FInt(1) ELSE Frac(elapsed, DURATION_MS)
             e == quintic_ease_out(tt)
         IN  [a |-> [a EXCEPT !.current_rect =
                        RectF(Lerp(a.start_rect.x, a.end_rect.x, e),
                              Lerp(a.start_rect.y, a.end_rect.y, e),
                              Lerp(a.start_rect.w, a.end_rect.w, e),
                              Lerp(a.start_rect.h, a.end_rect.h, e))],
              repaint |-> TRUE]

\* RectAnimator.tick: the animator it leaves and the value it returns
tick(a, t) ==
    IF ~a.active THEN [a |-> a, repaint |-> FALSE]
    ELSE LET elapsed == t - a.start_time
             tt == IF elapsed >= DURATION_MS THEN FInt(1) ELSE Frac(elapsed, DURATION_MS)
             e == quintic_ease_out(tt)
             cur == RectF(Lerp(a.start_rect.x, a.end_rect.x, e),
                          Lerp(a.start_rect.y, a.end_rect.y, e),
                          Lerp(a.start_rect.w, a.end_rect.w, e),
                          Lerp(a.start_rect.h, a.end_rect.h, e))
         IN  IF FLeq(FInt(1), tt)
             THEN [a |-> [a EXCEPT !.active = FALSE, !.current_rect = a.end_rect],
                   repaint |-> TRUE]
             ELSE [a |-> [a EXCEPT !.current_rect = cur], repaint |-> TRUE]

(***************************************************************************)
(* WindowPicker (window_picker.py).                                        *)
(***************************************************************************)
\* the native handle of overlay instance id (QWidget.winId)
winId(id) == 1000 + id

\* WindowPicker.__init__
NewWindowPicker(screenshot, e) ==
    LET geo == virtual_geometry(e.screens)
    IN  [screenshot |-> screenshot, current_pos |-> Pt(0, 0),
         top_windows |-> << >>, child_cache |-> << >>, parent_stack |-> << >>,
         current_hwnd |-> 0, current_rect |-> NullRect,
         animator |-> NewRectAnimator, first_highlight |-> TRUE,
         show_magnifier |-> FALSE, own_hwnd |-> 0,
         desktop_offset |-> Pt(RectX(geo), RectY(geo)), desktop_geo |-> geo,
         timer_active |-> TRUE, visible |-> FALSE]

\* QWidget.mapFromGlobal / mapToGlobal of an overlay placed at its desktop_geo
mapFromGlobal(w, g) == Pt(g.x - RectX(w.desktop_geo), g.y - RectY(w.desktop_geo))

mapToGlobal(w, l) == Pt(l.x + RectX(w.desktop_geo), l.y + RectY(w.desktop_geo))

\* WindowPicker._to_display
to_display(p, screen_rect) ==
    RectXYWH(RectX(screen_rect) - p.desktop_offset.x,
             RectY(screen_rect) - p.desktop_offset.y,
             RectWidth(screen_rect), RectHeight(screen_rect))

\* the (hwnd, rect) pairs the enumeration callback of _init_windows keeps
init_windows_list(e, own) ==
    LET all == << Win(own, 0, TRUE, 0, 0, 0, 0, 0) >> \o EnumWindows(e)
        keep(w) == /\ w.hwnd # own
                   /\ w.visible
                   /\ w.title_len # 0
                   /\ ~(RectWidth(get_win_rect(w)) < 5 \/ RectHeight(get_win_rect(w)) < 5)
        kept == SelectSeq(all, keep)
    IN  [k \in 1..Len(kept) |-> [hwnd |-> kept[k].hwnd, rect |-> get_win_rect(kept[k])]]

\* the cache as a lookup: child_cache is a list of [parent, children] entries
CacheHas(cache, h) == \E k \in 1..Len(cache) : cache[k].parent = h

CacheGet(cache, h) == cache[CHOOSE k \in 1..Len(cache) : cache[k].parent = h].children

\* the walk GetWindow(GW_CHILD), GetWindow(GW_HWNDNEXT) of _enum_direct_children
direct_children(e, parent_hwnd) ==
    LET kids == SelectSeq(e.windows,
                    LAMBDA w : /\ w.parent = parent_hwnd
                               /\ w.visible
                               /\ RectWidth(get_win_rect(w)) > 2
                               /\ RectHeight(get_win_rect(w)) > 2)
    IN  [k \in 1..Len(kids) |-> [hwnd |-> kids[k].hwnd, rect |-> get_win_rect(kids[k])]]

\* WindowPicker._enum_direct_children: the list returned and the cache left
enum_direct_children(p, e, parent_hwnd) ==
    IF CacheHas(p.child_cache, parent_hwnd)
    THEN [children |-> CacheGet(p.child_cache, parent_hwnd), cache |-> p.child_cache,
          called |-> FALSE]
    ELSE LET children == direct_children(e, parent_hwnd)
         IN  [children |-> children,
              cache |-> Append(p.child_cache, [parent |-> parent_hwnd, children |-> children]),
              called |-> TRUE]

\* the last (hwnd, rect) of a list whose rect contains (sx, sy), or (0, QRect())
RECURSIVE LastContaining(_, _, _, _)
LastContaining(list, k, sx, sy) ==
    IF k > Len(list) THEN [hwnd |-> 0, rect |-> NullRect]
    ELSE IF LastContaining(list, k + 1, sx, sy).hwnd # 0
         THEN LastContaining(list, k + 1, sx, sy)
    ELSE IF RectContains(list[k].rect, sx, sy) THEN list[k]
    ELSE [hwnd |-> 0, rect |-> NullRect]

\* the first (hwnd, rect) of a list whose rect contains (sx, sy), or (0, QRect())
RECURSIVE FirstContaining(_, _, _, _)
FirstContaining(list, k, sx, sy) ==
    IF k > Len(list) THEN [hwnd |-> 0, rect |-> NullRect]
    ELSE IF RectContains(list[k].rect, sx, sy) THEN list[k]
    ELSE FirstContaining(list, k + 1, sx, sy)

\* the live rectangle of a handle (an unknown handle leaves the RECT zeroed)
live_rect(e, h) ==
    IF \E k \in 1..Len(e.windows) : e.windows[k].hwnd = h
    THEN get_win_rect(e.windows[CHOOSE k \in 1..Len(e.windows) : e.windows[k].hwnd = h])
    ELSE RectXYWH(0, 0, 0, 0)

\* a hit-test below a drilled parent that always answers the parent
child_or_parent_ParentOnly(e, parent, en, hit) ==
    [hwnd |-> parent, rect |-> live_rect(e, parent), cache |-> en.cache]

\* _find_window_at below a drilled parent: the first child hit, else the parent
\* with its live rectangle
child_or_parent(e, parent, en, hit) ==
    IF hit.hwnd # 0
    THEN [hwnd |-> hit.hwnd, rect |-> hit.rect, cache |-> en.cache]
    ELSE [hwnd |-> parent, rect |-> live_rect(e, parent), cache |-> en.cache]

find_in_children(e, parent, en, sx, sy) ==
    child_or_parent(e, parent, en, FirstContaining(en.children, 1, sx, sy))

find_in_top(p, hit) == [hwnd |-> hit.hwnd, rect |-> hit.rect, cache |-> p.child_cache]

\* WindowPicker._find_window_at: the hit, and the cache it leaves
find_window_at(p, e, sx, sy) ==
    IF p.parent_stack = << >>
    THEN find_in_top(p, FirstContaining(p.top_windows, 1, sx, sy))
    ELSE find_in_children(e, p.parent_stack[Len(p.parent_stack)],
                          enum_direct_children(p, e, p.parent_stack[Len(p.parent_stack)]),
                          sx, sy)

\* the calls into the host's window hierarchy that _find_window_at makes, in
\* order: the child walk of _enum_direct_children when the parent is not
\* cached, and _get_win_rect(parent) when no child contains the point
find_window_at_calls(p, e, sx, sy) ==
    IF p.parent_stack = << >> THEN << >>
    ELSE LET parent == p.parent_stack[Len(p.parent_stack)]
             en == enum_direct_children(p, e, parent)
         IN  (IF en.called THEN << [fn |-> "enum_direct_children", hwnd |-> parent] >>
              ELSE << >>)
             \o (IF FirstContaining(en.children, 1, sx, sy).hwnd # 0 THEN << >>
                 ELSE << [fn |-> "get_win_rect", hwnd |-> parent] >>)

\* a highlight update that restarts the grow-from-point animation on every hit
highlight_Regrows(p, f, t) ==
    IF f.hwnd # 0 /\ RectWidth(f.rect) > 0
    THEN [p EXCEPT !.current_hwnd = f.hwnd, !.current_rect = f.rect,
                   !.animator = animate_from_cursor(@, p.current_pos,
                                                    to_display(p, f.rect), t),
                   !.first_highlight = FALSE]
    ELSE IF f.hwnd = 0
    THEN [p EXCEPT !.current_hwnd = 0, !.current_rect = NullRect]
    ELSE p

\* a highlight update that retargets the animator from its current rectangle
\* on every change, the first one included
highlight_AlwaysRetarget(p, f, t) ==
    IF f.hwnd # 0 /\ RectWidth(f.rect) > 0
    THEN IF f.hwnd # p.current_hwnd
         THEN [p EXCEPT !.current_hwnd = f.hwnd, !.current_rect = f.rect,
                        !.animator = animate_to(@, to_display(p, f.rect), t),
                        !.first_highlight = FALSE]
         ELSE p
    ELSE IF f.hwnd = 0
    THEN [p EXCEPT !.current_hwnd = 0, !.current_rect = NullRect]
    ELSE p

\* _update_highlight once the hit f is known (p holds the cache the hit-test left)
highlight(p, f, t) ==
    IF f.hwnd # 0 /\ RectWidth(f.rect) > 0
    THEN IF f.hwnd # p.current_hwnd
         THEN IF p.first_highlight
              THEN [p EXCEPT !.current_hwnd = f.hwnd, !.current_rect = f.rect,
                             !.animator = animate_from_cursor(@, p.current_pos,
                                               to_display(p, f.rect), t),
                             !.first_highlight = FALSE]
              ELSE [p EXCEPT !.current_hwnd = f.hwnd, !.current_rect = f.rect,
                             !.animator = animate_to(@, to_display(p, f.rect), t)]
         ELSE p
    ELSE IF f.hwnd = 0
    THEN [p EXCEPT !.current_hwnd = 0, !.current_rect = NullRect]
    ELSE p

hit_test(p, e, screen_pos) == find_window_at(p, e, screen_pos.x, screen_pos.y)

highlight_hit(p, f, t) == highlight([p EXCEPT !.child_cache = f.cache], f, t)

\* WindowPicker._update_highlight
update_highlight(p, e, t) ==
    highlight_hit(p, hit_test(p, e, mapToGlobal(p, p.current_pos)), t)

\* WindowPicker._init_windows
init_windows(p, e, id, cur, t) ==
    update_highlight([p EXCEPT !.own_hwnd = winId(id),
                               !.top_windows = init_windows_list(e, winId(id)),
                               !.current_pos = mapFromGlobal(p, cur)], e, t)

\* a descend that pushes the highlighted node without clearing the highlight
page_down_KeepsHighlight(p, e, t) ==
    IF p.current_hwnd = 0 THEN p
    ELSE LET en == enum_direct_children(p, e, p.current_hwnd)
             p1 == [p EXCEPT !.child_cache = en.cache]
         IN  IF en.children # << >>
             THEN update_highlight([p1 EXCEPT !.parent_stack = Append(@, p.current_hwnd)], e, t)
             ELSE p1

\* WindowPicker._page_down
page_down(p, e, t) ==
    IF p.current_hwnd = 0 THEN p
    ELSE LET en == enum_direct_children(p, e, p.current_hwnd)
             p1 == [p EXCEPT !.child_cache = en.cache]
         IN  IF en.children # << >>
             THEN update_highlight([p1 EXCEPT !.parent_stack = Append(@, p.current_hwnd),
                                              !.current_hwnd = 0,
                                              !.first_highlight = TRUE], e, t)
             ELSE p1

\* WindowPicker._page_up
page_up(p, e, t) ==
    IF p.parent_stack = << >> THEN p
    ELSE LET parent == p.parent_stack[Len(p.parent_stack)]
         IN  update_highlight(
                [p EXCEPT !.parent_stack = SubSeq(@, 1, Len(@) - 1),
                          !.child_cache = SelectSeq(@, LAMBDA c : c.parent # parent),
                          !.current_hwnd = 0,
                          !.first_highlight = TRUE], e, t)

\* WindowPicker.paintEvent: the highlight rectangle is drawn
paints_highlight(p) ==
    /\ ~RectFIsEmpty(p.animator.current_rect)
    /\ FLess(FInt(1), p.animator.current_rect.w)
    /\ FLess(FInt(1), p.animator.current_rect.h)

\* a timer slot that does not advance the animator
on_tick_Skips(p, t) == p

\* WindowPicker._on_tick
on_tick(p, t) == [p EXCEPT !.animator = tick(@, t).a]

\* WindowPicker.mouseMoveEvent
Picker_move(p, e, pos, t) == update_highlight([p EXCEPT !.current_pos = pos], e, t)

\* a confirm that emits the rectangle the animator shows at that moment
Picker_confirm_Interpolated(p) ==
    IF ~RectIsEmpty(p.current_rect)
    THEN Out([p EXCEPT !.timer_active = FALSE, !.visible = FALSE],
             "element_selected",
             RectXYWH(p.animator.current_rect.x.n \div p.animator.current_rect.x.d,
                      p.animator.current_rect.y.n \div p.animator.current_rect.y.d,
                      p.animator.current_rect.w.n \div p.animator.current_rect.w.d,
                      p.animator.current_rect.h.n \div p.animator.current_rect.h.d))
    ELSE Out(p, "none", NullRect)

\* a confirm that does not test the highlight
Picker_confirm_Unguarded(p) ==
    Out([p EXCEPT !.timer_active = FALSE, !.visible = FALSE],
        "element_selected", to_display(p, p.current_rect))

\* the confirm branch shared by the left click and Enter/Return
Picker_confirm(p) ==
    IF ~RectIsEmpty(p.current_rect)
    THEN Out([p EXCEPT !.timer_active = FALSE, !.visible = FALSE],
             "element_selected", to_display(p, p.current_rect))
    ELSE Out(p, "none", NullRect)

\* a cancel that emits without stopping the timer and hiding the surface
Picker_cancel_NoHide(p) == Out(p, "cancelled", NullRect)

\* the cancel branch shared by the right click and Escape
Picker_cancel(p) ==
    Out([p EXCEPT !.timer_active = FALSE, !.visible = FALSE], "cancelled", NullRect)

\* WindowPicker.mousePressEvent
Picker_press(p, button) ==
    IF button = "Left" THEN Picker_confirm(p)
    ELSE IF button = "Right" THEN Picker_cancel(p)
    ELSE Out(p, "none", NullRect)


\* WindowPicker.keyPressEvent, the keys that end or leave the instance in place
\* (Space emits switch_to_region synchronously: see Picker_keyPressEvent)
Picker_key(p, e, key, t) ==
    IF key = "Escape" THEN Picker_cancel(p)
    ELSE IF key = "Return" THEN Picker_confirm(p)
    ELSE IF key = "Space" THEN Out([p EXCEPT !.timer_active = FALSE], "switch_to_region", NullRect)
    ELSE IF key = "PageDown" THEN Out(page_down(p, e, t), "none", NullRect)
    ELSE IF key = "PageUp" THEN Out(page_up(p, e, t), "none", NullRect)
    ELSE IF key = "Z" THEN Out([p EXCEPT !.show_magnifier = ~@], "none", NullRect)
    ELSE Out(p, "none", NullRect)

\* WindowPicker._nudge_cursor, given the cursor position QCursor.setPos leaves
nudge_cursor(p, e, cur, t) ==
    update_highlight([p EXCEPT !.current_pos = mapFromGlobal(p, cur)], e, t)

(***************************************************************************)
(* SwiftShotApp (app.py).  The methods are functions of the world w: the   *)
(* orchestrator's fields, the overlay instances and the pending callbacks. *)
(***************************************************************************)
World ==
    [app |-> app, regions |-> regions, pickers |-> pickers, timers |-> timers,
     requests |-> requests, shots |-> shots, pipeline |-> pipeline]

Commit(w) ==
    /\ app' = w.app
    /\ regions' = w.regions
    /\ pickers' = w.pickers
    /\ timers' = w.timers
    /\ requests' = w.requests
    /\ shots' = w.shots
    /\ pipeline' = w.pipeline

\* a pending single-shot callback
Timer(cb, kind, id, rect, shot) ==
    [cb |-> cb, kind |-> kind, id |-> id, rect |-> rect, shot |-> shot]

\* a pending _capture_with_delay (or countdown) callback
Request(kind, session, rect) == [kind |-> kind, session |-> session, rect |-> rect]

\* SwiftShotApp._close_overlay
close_overlay(w) ==
    IF w.app.overlay # 0
    THEN [w EXCEPT !.regions[w.app.overlay].visible = FALSE, !.app.overlay = 0]
    ELSE w

\* a close that keeps the orchestrator's reference
close_window_picker_KeepRef(w) ==
    IF w.app.window_picker # 0
    THEN [w EXCEPT !.pickers[w.app.window_picker].visible = FALSE,
                   !.pickers[w.app.window_picker].timer_active = FALSE]
    ELSE w

\* SwiftShotApp._close_window_picker (close() runs closeEvent, which stops the timer)
close_window_picker(w) ==
    IF w.app.window_picker # 0
    THEN [w EXCEPT !.pickers[w.app.window_picker].visible = FALSE,
                   !.pickers[w.app.window_picker].timer_active = FALSE,
                   !.app.window_picker = 0]
    ELSE w

\* CaptureManager.capture_fullscreen: a new snapshot, or None (ok = FALSE)
capture_fullscreen(w, ok, session, cause) ==
    IF ok THEN [w EXCEPT !.shots = Append(@, [session |-> session, cause |-> cause])]
    ELSE w

\* CaptureManager.crop_image: the crop rectangle, or None
crop_image(e, rect) ==
    LET geo == virtual_geometry(e.screens)
        crop_rect == RectIntersected(rect, RectXYWH(0, 0, RectWidth(geo), RectHeight(geo)))
    IN  IF RectWidth(crop_rect) < 1 \/ RectHeight(crop_rect) < 1 THEN None
        ELSE Some(crop_rect)

\* SwiftShotApp._handle_capture / _do_ocr of a crop of snapshot full
handle_capture(w, e, full, rect, via) ==
    IF crop_image(e, rect) = None THEN w
    ELSE [w EXCEPT !.pipeline = Append(@, [shot |-> full, rect |-> crop_image(e, rect)[1],
                                            via |-> via])]

\* an entry point that opens the overlay whether or not a snapshot was returned
start_region_overlay_Unchecked(w, e, mode, ocr_mode, ok, session) ==
    LET w1 == capture_fullscreen(w, ok, session, "request")
    IN  [w1 EXCEPT !.regions = Append(@, [NewRegionSelector(Len(w1.shots), mode, e)
                                              EXCEPT !.ocr_mode = ocr_mode,
                                                     !.visible = TRUE]),
                   !.app.overlay = Len(w.regions) + 1]

\* SwiftShotApp._start_region_overlay
start_region_overlay(w, e, mode, ocr_mode, ok, session) ==
    LET w1 == capture_fullscreen(w, ok, session, "request")
        full == Len(w1.shots)
        id == Len(w.regions) + 1
    IN  IF ~ok THEN w1
        ELSE [w1 EXCEPT !.regions = Append(@, [NewRegionSelector(full, mode, e)
                                                  EXCEPT !.ocr_mode = ocr_mode,
                                                         !.visible = TRUE]),
                        !.app.overlay = id]

\* SwiftShotApp._start_window_picker (show_spanning runs showEvent, which defers
\* _init_windows)
start_window_picker(w, e, full_screenshot) ==
    LET w1 == close_window_picker(w)
        id == Len(w.pickers) + 1
    IN  [w1 EXCEPT !.pickers = Append(@, [NewWindowPicker(full_screenshot, e)
                                             EXCEPT !.visible = TRUE]),
                   !.app.window_picker = id,
                   !.timers = Append(@, Timer("init_windows", "picker", id, NullRect, 0))]

\* SwiftShotApp._do_window_capture
do_window_capture(w, e, ok, session) ==
    LET w1 == capture_fullscreen(w, ok, session, "request")
    IN  IF ~ok THEN w1 ELSE start_window_picker(w1, e, Len(w1.shots))

\* SwiftShotApp._timed_capture_region: the countdown, as a pending callback
timed_capture_region(w, rect, session) ==
    [w EXCEPT !.requests = Append(@, Request("timed", session, rect))]

\* SwiftShotApp._timed_capture_fire
timed_capture_fire(w, e, rect, ok, session) ==
    LET w1 == capture_fullscreen(w, ok, session, "timed")
    IN  IF ~ok THEN w1 ELSE handle_capture(w1, e, Len(w1.shots), rect, "capture")

\* SwiftShotApp._on_region_selected
on_region_selected(w, e, full_screenshot, rect, ocr_mode) ==
    LET w1 == close_overlay(w)
        w2 == [w1 EXCEPT !.app.last_region = Some(rect)]
    IN  IF RectWidth(rect) < 1 \/ RectHeight(rect) < 1 THEN w1
        ELSE IF ocr_mode THEN handle_capture(w2, e, full_screenshot, rect, "ocr")
        ELSE IF e.timer_enabled
        THEN timed_capture_region(w2, rect, w2.shots[full_screenshot].session)
        ELSE handle_capture(w2, e, full_screenshot, rect, "capture")

\* SwiftShotApp._on_window_selected
on_window_selected(w, e, full_screenshot, rect) ==
    LET w1 == close_window_picker(w)
    IN  IF RectWidth(rect) < 1 \/ RectHeight(rect) < 1 THEN w1
        ELSE IF e.timer_enabled
        THEN timed_capture_region(w1, rect, w1.shots[full_screenshot].session)
        ELSE handle_capture(w1, e, full_screenshot, rect, "capture")

\* SwiftShotApp._switch_to_window_mode
switch_to_window_mode(w, full_screenshot) ==
    LET w1 == close_overlay(w)
    IN  [w1 EXCEPT !.timers = Append(@, Timer("start_window_picker", "app", 0,
                                              NullRect, full_screenshot))]

\* a switch that takes a fresh snapshot for the new overlay
switch_to_region_mode_Recapture(w, e, full_screenshot) ==
    LET w1 == close_window_picker(w)
        w2 == [w1 EXCEPT !.shots = Append(@, [session |-> w1.shots[full_screenshot].session,
                                              cause |-> "request"])]
        id == Len(w.regions) + 1
    IN  [w2 EXCEPT !.regions = Append(@, NewRegionSelector(Len(w2.shots), "rectangle", e)),
                   !.app.overlay = id,
                   !.timers = Append(@, Timer("show_spanning", "app", 0, NullRect, 0))]

\* SwiftShotApp._switch_to_region_mode
switch_to_region_mode(w, e, full_screenshot) ==
    LET w1 == close_window_picker(w)
        id == Len(w.regions) + 1
    IN  [w1 EXCEPT !.regions = Append(@, NewRegionSelector(full_screenshot, "rectangle", e)),
                   !.app.overlay = id,
                   !.timers = Append(@, Timer("show_spanning", "app", 0, NullRect, 0))]

\* the deferred lambda of _switch_to_region_mode: self._overlay.show_spanning()
show_overlay(w) ==
    IF w.app.overlay # 0 THEN [w EXCEPT !.regions[w.app.overlay].visible = TRUE]
    ELSE w

\* the slot the orchestrator connected to a signal of an overlay instance
Slot(w, e, tm) ==
    IF tm.kind = "region" /\ tm.cb = "region_selected"
    THEN on_region_selected(w, e, w.regions[tm.id].screenshot, tm.rect,
                            w.regions[tm.id].ocr_mode)
    ELSE IF tm.kind = "region" /\ tm.cb = "cancelled" THEN close_overlay(w)
    ELSE IF tm.kind = "region" /\ tm.cb = "switch_to_window"
    THEN switch_to_window_mode(w, w.regions[tm.id].screenshot)
    ELSE IF tm.kind = "picker" /\ tm.cb = "element_selected"
    THEN on_window_selected(w, e, w.pickers[tm.id].screenshot, tm.rect)
    ELSE IF tm.kind = "picker" /\ tm.cb = "cancelled" THEN close_window_picker(w)
    ELSE IF tm.kind = "picker" /\ tm.cb = "switch_to_region"
    THEN switch_to_region_mode(w, e, w.pickers[tm.id].screenshot)
    ELSE w


(***************************************************************************)
(* The hosts the model runs on.                                            *)
(***************************************************************************)
OneScreen == << RectXYWH(0, 0, 1920, 1080) >>

\* a second monitor to the right of the primary: virtual origin (0, 0)
DualRight == << RectXYWH(0, 0, 1920, 1080), RectXYWH(1920, 0, 1280, 1024) >>

\* a second monitor to the left of the primary: virtual origin (-1280, 0)
DualLeft == << RectXYWH(0, 0, 1920, 1080), RectXYWH(-1280, 0, 1280, 1024) >>

Host(screens, windows, pts, timer_enabled) ==
    [screens |-> screens, windows |-> windows, pts |-> pts, timer_enabled |-> timer_enabled]

\* pointer positions whose pairwise differences cover |d| = 0, 1, 2 and 3 on
\* both axes and in both directions
NearPts == {Pt(0, 0), Pt(1, 0), Pt(1, 1), Pt(3, 1), Pt(3, 3), Pt(0, 3)}

\* hosts for the Region Selector: without windows, with one window whose
\* edges lie 8 px from coordinate 3, the two-monitor layout, a negative origin
RegionHosts ==
    { Host(OneScreen, << >>, NearPts, FALSE),
      Host(OneScreen, << Win(1, 0, TRUE, 4, 11, 11, 31, 31) >>, NearPts, FALSE),
      Host(DualRight, << >>, {Pt(1930, 10), Pt(2000, 100)}, FALSE),
      Host(DualLeft, << Win(1, 0, TRUE, 4, -1269, 11, -1249, 31) >>,
           {Pt(1, 1), Pt(3, 3)}, TRUE) }

(***************************************************************************)
(* History kept for the properties.                                        *)
(***************************************************************************)
NoDrag == [state |-> "none", p |-> Pt(0, 0), q |-> Pt(0, 0)]

\* one drag record per RegionSelector instance
DragSync(d, n) == d \o [k \in 1..(n - Len(d)) |-> NoDrag]

\* overlays constructed so far, or certain to be constructed
Planned ==
    Len(regions) + Len(pickers)
    + Cardinality({k \in 1..Len(requests) : requests[k].kind # "timed"})
    + Cardinality({k \in 1..Len(timers) :
                      timers[k].cb \in {"switch_to_window", "start_window_picker"}})

(***************************************************************************)
(* Actions: input events delivered to a visible RegionSelector.           *)
(***************************************************************************)
Buttons == {"Left", "Right"}

RegionKeys == {"Escape", "Space", "S", "C"}

Region_mousePressEvent(i, button, pos) ==
    /\ regions[i].visible
    /\ button = "Left" => ~regions[i].selecting
    /\ LET out == Region_press(regions[i], button, pos)
       IN  /\ regions' = [regions EXCEPT ![i] = out.r]
           /\ timers' = timers \o Deferred("region", i, out)
    /\ cursor' = mapToGlobal(regions[i], pos)
    /\ drag' = IF button = "Left"
               THEN [drag EXCEPT ![i] = [state |-> "pressed", p |-> pos, q |-> pos]]
               ELSE drag
    /\ UNCHANGED << env, app, pickers, requests, shots, now, delivered, pipeline, issued >>

Region_mouseMoveEvent(i, pos) ==
    /\ regions[i].visible
    /\ (regions[i].selecting /\ regions[i].mode = "freehand")
          => Len(regions[i].freehand_points) <= MaxFreehandMoves
    /\ regions' = [regions EXCEPT ![i] = Region_move(@, pos)]
    /\ cursor' = mapToGlobal(regions[i], pos)
    /\ UNCHANGED << env, app, pickers, timers, requests, shots, now, delivered,
                    pipeline, drag, issued >>

Region_mouseReleaseEvent(i, button, pos) ==
    /\ regions[i].visible
    /\ LET out == Region_release(regions[i], button, pos)
       IN  /\ regions' = [regions EXCEPT ![i] = out.r]
           /\ timers' = timers \o Deferred("region", i, out)
    /\ cursor' = mapToGlobal(regions[i], pos)
    /\ drag' = IF button = "Left" /\ regions[i].selecting
               THEN [drag EXCEPT ![i].state = "released", ![i].q = pos]
               ELSE drag
    /\ UNCHANGED << env, app, pickers, requests, shots, now, delivered, pipeline, issued >>

Region_keyPressEvent(i, key) ==
    /\ regions[i].visible
    /\ key = "Space" => Planned < MaxOverlays
    /\ LET out == Region_key(regions[i], key)
       IN  /\ regions' = [regions EXCEPT ![i] = out.r]
           /\ timers' = timers \o Deferred("region", i, out)
    /\ UNCHANGED << env, app, pickers, requests, shots, cursor, now, delivered,
                    pipeline, drag, issued >>

(***************************************************************************)
(* Actions: input events delivered to a visible WindowPicker, its          *)
(* animation timer, and the clock.                                         *)
(***************************************************************************)
PickerKeys == {"Escape", "Return", "PageDown", "PageUp"}

Picker_mouseMoveEvent(i, pos) ==
    /\ pickers[i].visible
    /\ pickers' = [pickers EXCEPT ![i] = Picker_move(@, env, pos, now)]
    /\ cursor' = mapToGlobal(pickers[i], pos)
    /\ UNCHANGED << env, app, regions, timers, requests, shots, now, delivered,
                    pipeline, drag, issued >>

\* the handler of instance i returns: its state, and the signal it scheduled
Picker_handled(i, out) ==
    /\ pickers' = [pickers EXCEPT ![i] = out.r]
    /\ timers' = timers \o Deferred("picker", i, out)

Picker_mousePressEvent(i, button) ==
    /\ pickers[i].visible
    /\ Picker_handled(i, Picker_press(pickers[i], button))
    /\ UNCHANGED << env, app, regions, requests, shots, cursor, now, delivered,
                    pipeline, drag, issued >>

Picker_keyPressEvent(i, key) ==
    /\ pickers[i].visible
    /\ key = "PageDown" => Len(pickers[i].parent_stack) < MaxDrill
    /\ Picker_handled(i, Picker_key(pickers[i], env, key, now))
    /\ UNCHANGED << env, app, regions, requests, shots, cursor, now, delivered,
                    pipeline, drag, issued >>

\* the Space key: switch_to_region is emitted inside the handler, and its slot
\* _switch_to_region_mode runs before the handler returns
slot_returned(w, tm) ==
    /\ Commit(w)
    /\ delivered' = Append(delivered, tm)
    /\ drag' = DragSync(drag, Len(w.regions))

emit_now(w, tm) == slot_returned(Slot(w, env, tm), tm)

Picker_emitted(i, out) ==
    emit_now([World EXCEPT !.pickers[i] = out.r], Timer(out.sig, "picker", i, out.rect, 0))

Picker_keySpace(i) ==
    /\ pickers[i].visible
    /\ Planned < MaxOverlays
    /\ Picker_emitted(i, Picker_key(pickers[i], env, "Space", now))
    /\ UNCHANGED << env, cursor, now, issued >>

\* Ctrl + an arrow key: QCursor.setPos moves the OS cursor by (dx, dy)
Picker_keyArrow(i, dx, dy) ==
    /\ pickers[i].visible
    /\ LET cur == Pt(cursor.x + dx, cursor.y + dy)
       IN  /\ mapFromGlobal(pickers[i], cur) \in env.pts
           /\ cursor' = cur
           /\ pickers' = [pickers EXCEPT ![i] = nudge_cursor(@, env, cur, now)]
    /\ UNCHANGED << env, app, regions, timers, requests, shots, now, delivered,
                    pipeline, drag, issued >>

\* the 16 ms animation timer of a picker
Picker_on_tick(i) ==
    /\ pickers[i].timer_active
    /\ pickers' = [pickers EXCEPT ![i] = on_tick(@, now)]
    /\ UNCHANGED << env, app, regions, timers, requests, shots, cursor, now,
                    delivered, pipeline, drag, issued >>

\* time passes; the 50 ms single-shot callbacks have fired by then
AdvanceClock ==
    /\ timers = << >>
    /\ now < MaxTicks * Quantum
    /\ now' = now + Quantum
    /\ UNCHANGED << env, app, regions, pickers, timers, requests, shots, cursor,
                    delivered, pipeline, drag, issued >>

(***************************************************************************)
(* Actions: the orchestrator.                                              *)
(***************************************************************************)
CaptureKinds == {"rectangle", "freehand", "ocr", "window"}

\* capture_region / capture_freehand / capture_ocr / capture_window
capture_request(kind) ==
    /\ issued < MaxRequests
    /\ Planned < MaxOverlays
    /\ issued' = issued + 1
    /\ requests' = Append(requests, Request(kind, issued + 1, NullRect))
    /\ UNCHANGED << env, app, regions, pickers, timers, shots, cursor, now,
                    delivered, pipeline, drag >>

\* the callback of the oldest pending request runs; ok: the snapshot succeeds
do_capture(ok) ==
    /\ requests # << >>
    /\ LET rq == Head(requests)
           w0 == [World EXCEPT !.requests = Tail(@)]
           w == IF rq.kind = "window" THEN do_window_capture(w0, env, ok, rq.session)
                ELSE IF rq.kind = "timed"
                THEN timed_capture_fire(w0, env, rq.rect, ok, rq.session)
                ELSE start_region_overlay(w0, env,
                        IF rq.kind = "freehand" THEN "freehand" ELSE "rectangle",
                        rq.kind = "ocr", ok, rq.session)
       IN  /\ Commit(w)
           /\ drag' = DragSync(drag, Len(w.regions))
    /\ UNCHANGED << env, cursor, now, delivered, issued >>

\* the oldest pending single-shot callback runs
fire_timer ==
    /\ timers # << >>
    /\ LET tm == Head(timers)
           w0 == [World EXCEPT !.timers = Tail(@)]
       IN  IF tm.cb = "init_windows"
           THEN Commit([w0 EXCEPT !.pickers[tm.id] =
                                     init_windows(@, env, tm.id, cursor, now)])
           ELSE IF tm.cb = "start_window_picker"
           THEN Commit(start_window_picker(w0, env, tm.shot))
           ELSE IF tm.cb = "show_spanning"
           THEN Commit(show_overlay(w0))
           ELSE Commit(Slot(w0, env, tm))
    /\ delivered' = Append(delivered, Head(timers))
    /\ UNCHANGED << env, cursor, now, drag, issued >>

\* a step in which the oldest pending callback runs: fire_timer is the only
\* action that appends the head of timers to delivered
callback_runs ==
    /\ timers # << >>
    /\ delivered' = Append(delivered, Head(timers))

(***************************************************************************)
(* Specifications.                                                         *)
(***************************************************************************)
\* SwiftShotApp.__init__, on host e
Start(e) ==
    /\ env = e
    /\ app = [overlay |-> 0, window_picker |-> 0, last_region |-> None]
    /\ regions = << >>
    /\ pickers = << >>
    /\ timers = << >>
    /\ requests = << >>
    /\ shots = << >>
    /\ cursor = Pt(0, 0)
    /\ now = 0
    /\ delivered = << >>
    /\ pipeline = << >>
    /\ drag = << >>
    /\ issued = 0

\* the Region Selector on its own: a region or freehand capture is requested
\* once, and the overlay's events and deferred callbacks follow
InitRegion ==
    /\ \E e \in RegionHosts : Start(e)

RegionRequest ==
    /\ issued = 0
    /\ \E kind \in {"rectangle", "freehand"} : capture_request(kind)

RegionInput ==
    \E i \in 1..Len(regions) :
        \/ \E b \in Buttons, pos \in env.pts : Region_mousePressEvent(i, b, pos)
        \/ \E pos \in env.pts : Region_mouseMoveEvent(i, pos)
        \/ \E pos \in env.pts : Region_mouseReleaseEvent(i, "Left", pos)
        \/ \E key \in RegionKeys : Region_keyPressEvent(i, key)

NextRegion ==
    \/ RegionRequest
    \/ \E ok \in BOOLEAN : do_capture(ok)
    \/ RegionInput
    \/ fire_timer

SpecRegion == InitRegion /\ [][NextRegion]_vars


(***************************************************************************)
(* The Window Picker on its own: a window capture is requested once.  The  *)
(* hosts: no window at all; one top-level window R = (20,20)-(60,60) with  *)
(* children A = (22,22)-(32,32) and B = (40,22)-(50,32), an untitled and a *)
(* hidden top-level window; the same to the left of the primary monitor.   *)
(***************************************************************************)
PickerPts == {Pt(25, 25), Pt(35, 25)}

Tree(dx) ==
    << Win(9, 0, TRUE, 0, dx + 0, 0, dx + 70, 70),
       Win(8, 0, FALSE, 5, dx + 0, 0, dx + 70, 70),
       Win(1, 0, TRUE, 4, dx + 20, 20, dx + 60, 60),
       Win(2, 1, TRUE, 0, dx + 22, 22, dx + 32, 32),
       Win(3, 1, TRUE, 0, dx + 40, 22, dx + 50, 32) >>

PickerHosts ==
    { Host(OneScreen, << >>, {Pt(5, 5), Pt(25, 25)}, FALSE),
      Host(OneScreen, Tree(0), PickerPts, FALSE),
      Host(DualLeft, Tree(-1280), {Pt(5, 5), Pt(45, 25)}, TRUE) }

InitPicker ==
    /\ \E e \in PickerHosts : Start(e)

PickerRequest ==
    /\ issued = 0
    /\ capture_request("window")

PickerInput ==
    \E i \in 1..Len(pickers) :
        \/ \E pos \in env.pts : Picker_mouseMoveEvent(i, pos)
        \/ \E b \in Buttons : Picker_mousePressEvent(i, b)
        \/ \E key \in PickerKeys : Picker_keyPressEvent(i, key)
        \/ Picker_keySpace(i)
        \/ \E d \in {Pt(10, 0), Pt(-10, 0)} : Picker_keyArrow(i, d.x, d.y)
        \/ Picker_on_tick(i)

NextPicker ==
    \/ PickerRequest
    \/ \E ok \in BOOLEAN : do_capture(ok)
    \/ PickerInput
    \/ fire_timer
    \/ AdvanceClock

SpecPicker == InitPicker /\ [][NextPicker]_vars

(***************************************************************************)
(* The orchestrator with both overlays: one capture request of any kind on *)
(* one host with two pointer positions, and the inputs that end an overlay *)
(* or switch to the other one (press, release, Escape, Space, Enter).     *)
(***************************************************************************)
Init ==
    \E timer_enabled \in BOOLEAN :
        Start(Host(OneScreen, Tree(0), {Pt(5, 5), Pt(25, 25)}, timer_enabled))

AnyRequest ==
    /\ issued = 0
    /\ \E kind \in CaptureKinds : capture_request(kind)

RegionEnding ==
    \E i \in 1..Len(regions) :
        \/ \E b \in Buttons, pos \in env.pts : Region_mousePressEvent(i, b, pos)
        \/ \E pos \in env.pts : Region_mouseReleaseEvent(i, "Left", pos)
        \/ \E key \in {"Escape", "Space"} : Region_keyPressEvent(i, key)

PickerEnding ==
    \E i \in 1..Len(pickers) :
        \/ \E pos \in env.pts : Picker_mouseMoveEvent(i, pos)
        \/ \E b \in Buttons : Picker_mousePressEvent(i, b)
        \/ \E key \in {"Escape", "Return"} : Picker_keyPressEvent(i, key)
        \/ Picker_keySpace(i)

Next ==
    \/ AnyRequest
    \/ \E ok \in BOOLEAN : do_capture(ok)
    \/ RegionEnding
    \/ PickerEnding
    \/ fire_timer

Spec == Init /\ [][Next]_vars

\* the same on one host with two pointer positions, with the event loop running:
\* a pending callback fires
InitRegionSmall ==
    Start(Host(OneScreen, << Win(1, 0, TRUE, 4, 11, 11, 31, 31) >>,
               {Pt(1, 1), Pt(3, 3)}, FALSE))

SpecRegionFair == InitRegionSmall /\ [][NextRegion]_vars /\ WF_delivered(callback_runs)

\* the Window Picker with the event loop running, on a host without windows and
\* on the host with the window tree, each with two pointer positions
InitPickerSmall ==
    \E e \in { Host(OneScreen, << >>, {Pt(25, 25), Pt(35, 25)}, FALSE),
                Host(OneScreen, Tree(0), {Pt(25, 25), Pt(35, 25)}, FALSE) } : Start(e)

SpecPickerFair == InitPickerSmall /\ [][NextPicker]_vars /\ WF_delivered(callback_runs)

\* capture requests that overlap: a hotkey or tray entry is used again while a
\* request is pending or an overlay is open.  The overlays take the keys that end
\* them or switch to the other one, and the picker a pointer move and Enter.
InitSessions ==
    Start(Host(OneScreen, Tree(0), {Pt(25, 25)}, FALSE))

SessionsRequest ==
    \E kind \in CaptureKinds : capture_request(kind)

SessionsRegionInput ==
    /\ app.overlay # 0
    /\ \E key \in {"Escape", "Space"} : Region_keyPressEvent(app.overlay, key)

SessionsPickerInput ==
    /\ app.window_picker # 0
    /\ \/ \E pos \in env.pts : Picker_mouseMoveEvent(app.window_picker, pos)
       \/ \E key \in {"Escape", "Return"} : Picker_keyPressEvent(app.window_picker, key)
       \/ Picker_keySpace(app.window_picker)

NextSessions ==
    \/ SessionsRequest
    \/ \E ok \in BOOLEAN : do_capture(ok)
    \/ SessionsRegionInput
    \/ SessionsPickerInput
    \/ fire_timer

SpecSessions == InitSessions /\ [][NextSessions]_vars

\* the drill keys of the Window Picker on the host with the window tree, with
\* the pointer inside A, inside R only, and inside B
InitDrill ==
    Start(Host(OneScreen, Tree(0), {Pt(25, 25), Pt(35, 25), Pt(45, 25)}, FALSE))

DrillInput ==
    \E i \in 1..Len(pickers) :
        \/ \E pos \in env.pts : Picker_mouseMoveEvent(i, pos)
        \/ \E key \in {"PageDown", "PageUp"} : Picker_keyPressEvent(i, key)

NextDrill ==
    \/ PickerRequest
    \/ \E ok \in BOOLEAN : do_capture(ok)
    \/ DrillInput
    \/ fire_timer

SpecDrill == InitDrill /\ [][NextDrill]_vars

\* edge snapping of the Region Selector: a host whose two titled windows give the
\* vertical edges 11, 20, 31, 50 and the horizontal edges 11, 31, 40, 70, and a
\* host without windows.  The pointer coordinates 0, 3 and 17 (35) have no
\* edge, one edge at distance 8, and two edges within the snap distance.
SnapPts == {Pt(x, y) : x \in {0, 3, 17}, y \in {0, 3, 35}}

InitSnap ==
    \E e \in { Host(OneScreen, << Win(1, 0, TRUE, 4, 11, 11, 31, 31),
                                  Win(2, 0, TRUE, 4, 20, 40, 50, 70) >>, SnapPts, FALSE),
                Host(OneScreen, << >>, SnapPts, FALSE) } : Start(e)

SnapInput ==
    \E i \in 1..Len(regions) :
        \/ \E pos \in env.pts : Region_mouseMoveEvent(i, pos)
        \/ \E pos \in env.pts : Region_mousePressEvent(i, "Left", pos)
        \/ \E key \in {"S", "Escape"} : Region_keyPressEvent(i, key)

SnapRequest ==
    /\ issued = 0
    /\ capture_request("rectangle")

NextSnap ==
    \/ SnapRequest
    \/ \E ok \in BOOLEAN : do_capture(ok)
    \/ SnapInput
    \/ fire_timer

SpecSnap == InitSnap /\ [][NextSnap]_vars

\* the highlight animation of the Window Picker: pointer moves (inside A, inside
\* R only, over no titled window), a descend and an ascend retarget the
\* animator, its 16 ms timer ticks it, and time passes
InitAnim ==
    Start(Host(OneScreen, Tree(0), PickerPts \cup {Pt(5, 5)}, FALSE))

AnimInput ==
    \E i \in 1..Len(pickers) :
        \/ \E pos \in env.pts : Picker_mouseMoveEvent(i, pos)
        \/ \E key \in {"PageDown", "PageUp"} : Picker_keyPressEvent(i, key)
        \/ Picker_on_tick(i)

NextAnim ==
    \/ PickerRequest
    \/ \E ok \in BOOLEAN : do_capture(ok)
    \/ AnimInput
    \/ fire_timer
    \/ AdvanceClock

SpecAnim == InitAnim /\ [][NextAnim]_vars

\* the same while the event loop runs, time passes and the 16 ms timer keeps
\* ticking.  A tick leaves no tick pending (at a fixed time _on_tick changes
\* nothing when run again), so weak fairness of the tick,
\* WF_pickers(\E i \in 1..Len(pickers) : Picker_on_tick(i)), is the condition
\* that again and again no tick of a running timer would change the picker.
SpecAnimFair ==
    /\ InitAnim /\ [][NextAnim]_vars
    /\ WF_delivered(callback_runs)
    /\ WF_now(AdvanceClock)
    /\ []<>(\A i \in 1..Len(pickers) :
               pickers[i].timer_active => on_tick(pickers[i], now) = pickers[i])

\* a live window hierarchy under the Window Picker: the top-level windows
\* R = (20,20)-(60,60) and S = (30,20)-(70,60) overlap, R has the children
\* A = (22,22)-(32,32) and B = (40,22)-(50,32), and an untitled window covers
\* all of them.  The pointer is inside A and R, inside R and S, inside S only,
\* and over the untitled window only.  A titled top-level window may be
\* destroyed, with its children, while the picker is shown.
InitLive ==
    Start(Host(OneScreen,
               << Win(9, 0, TRUE, 0, 0, 0, 70, 70),
                  Win(1, 0, TRUE, 4, 20, 20, 60, 60),
                  Win(4, 0, TRUE, 4, 30, 20, 70, 60),
                  Win(2, 1, TRUE, 0, 22, 22, 32, 32),
                  Win(3, 1, TRUE, 0, 40, 22, 50, 32) >>,
               {Pt(25, 25), Pt(35, 25), Pt(65, 25), Pt(5, 5)}, FALSE))

\* the host destroys the titled top-level window h and its children: GetWindow
\* finds no child of h afterwards and _get_win_rect(h) leaves the RECT zeroed
window_closes(h) ==
    /\ \E i \in 1..Len(pickers) : pickers[i].visible
    /\ \E k \in 1..Len(env.windows) :
          /\ env.windows[k].hwnd = h
          /\ env.windows[k].parent = 0
          /\ env.windows[k].title_len # 0
    /\ env' = [env EXCEPT !.windows = SelectSeq(@, LAMBDA w : w.hwnd # h /\ w.parent # h)]
    /\ UNCHANGED << app, regions, pickers, timers, requests, shots, cursor, now,
                    delivered, pipeline, drag, issued >>

NextLive ==
    \/ PickerRequest
    \/ \E ok \in BOOLEAN : do_capture(ok)
    \/ DrillInput
    \/ \E h \in {1, 4} : window_closes(h)
    \/ fire_timer

SpecLive == InitLive /\ [][NextLive]_vars

\* the Rectangle Animator on its own, held by a picker that is never shown: its
\* two retargeting methods are called with the rectangles T1, T2, T3 and from
\* the points (25, 25) and (35, 25), its timer ticks it, and time passes
RetargetRects == {RectXYWH(20, 20, 40, 40), RectXYWH(22, 22, 10, 10), RectXYWH(40, 22, 10, 10)}

InitRetarget ==
    /\ env = Host(OneScreen, << >>, PickerPts, FALSE)
    /\ app = [overlay |-> 0, window_picker |-> 0, last_region |-> None]
    /\ regions = << >>
    /\ pickers = << NewWindowPicker(0, env) >>
    /\ timers = << >>
    /\ requests = << >>
    /\ shots = << >>
    /\ cursor = Pt(0, 0)
    /\ now = 0
    /\ delivered = << >>
    /\ pipeline = << >>
    /\ drag = << >>
    /\ issued = 0

\* a call of RectAnimator.animate_to or RectAnimator.animate_from_cursor
Animator_call ==
    /\ \E target \in RetargetRects :
          \/ pickers' = [pickers EXCEPT ![1].animator = animate_to(@, target, now)]
          \/ \E pos \in env.pts :
                pickers' = [pickers EXCEPT ![1].animator =
                                              animate_from_cursor(@, pos, target, now)]
    /\ UNCHANGED << env, app, regions, timers, requests, shots, cursor, now,
                    delivered, pipeline, drag, issued >>

NextRetarget ==
    \/ Animator_call
    \/ Picker_on_tick(1)
    \/ AdvanceClock

SpecRetarget == InitRetarget /\ [][NextRetarget]_vars

(***************************************************************************)
(* Properties of the Region Selector.                                      *)
(***************************************************************************)
\* instance id of the given kind has scheduled signal cb and it is still pending
Scheduled(kind, id, cb) ==
    \E k \in 1..Len(timers) :
        timers[k].kind = kind /\ timers[k].id = id /\ timers[k].cb = cb

\* signal cb of instance id has reached the orchestrator
Reached(kind, id, cb) ==
    \E k \in 1..Len(delivered) :
        delivered[k].kind = kind /\ delivered[k].id = id /\ delivered[k].cb = cb

Emitted(kind, id, cb) == Scheduled(kind, id, cb) \/ Reached(kind, id, cb)

\* the rectangles instance id emits or has emitted with region_selected
EmittedRects(kind, id, cb) ==
    {timers[k].rect : k \in {j \in 1..Len(timers) :
        timers[j].kind = kind /\ timers[j].id = id /\ timers[j].cb = cb}}
    \cup
    {delivered[k].rect : k \in {j \in 1..Len(delivered) :
        delivered[j].kind = kind /\ delivered[j].id = id /\ delivered[j].cb = cb}}

\* a completed rectangle drag of instance i on which snapping changed neither end
PlainRectDrag(i) ==
    /\ regions[i].mode = "rectangle"
    /\ drag[i].state = "released"
    /\ regions[i].start_pos = drag[i].p
    /\ regions[i].end_pos = drag[i].q

DragDx(i) == Abs(drag[i].q.x - drag[i].p.x)

DragDy(i) == Abs(drag[i].q.y - drag[i].p.y)

\* C1: in rectangle mode, with snapping changing neither end, a drag from p to
\* a release at q with |dx| >= 2 and |dy| >= 2 ends in region_selected and never
\* in cancelled.
C1_LargeDragConfirms ==
    \A i \in 1..Len(regions) :
        (PlainRectDrag(i) /\ DragDx(i) >= 2 /\ DragDy(i) >= 2)
            => /\ Emitted("region", i, "region_selected")
               /\ ~Emitted("region", i, "cancelled")

\* C1 witness: a drag of exactly 2 px on both axes whose region_selected reached
\* the orchestrator
C1_Witness ==
    \E i \in 1..Len(regions) :
        /\ PlainRectDrag(i) /\ DragDx(i) = 2 /\ DragDy(i) = 2
        /\ Reached("region", i, "region_selected")

\* C2 as stated: the emitted rectangle has top-left (min x, min y) and
\* width |dx|, height |dy|.
C2_AsStated ==
    \A i \in 1..Len(regions) :
        PlainRectDrag(i) =>
            \A rect \in EmittedRects("region", i, "region_selected") :
                /\ RectX(rect) = Min(drag[i].p.x, drag[i].q.x)
                /\ RectY(rect) = Min(drag[i].p.y, drag[i].q.y)
                /\ RectWidth(rect) = DragDx(i)
                /\ RectHeight(rect) = DragDy(i)

\* C2 amended: the emitted rectangle has top-left (min x, min y) whatever the drag
\* direction, and spans both corner pixels: width |dx| + 1, height |dy| + 1.
C2_InclusiveSize ==
    \A i \in 1..Len(regions) :
        PlainRectDrag(i) =>
            \A rect \in EmittedRects("region", i, "region_selected") :
                /\ RectX(rect) = Min(drag[i].p.x, drag[i].q.x)
                /\ RectY(rect) = Min(drag[i].p.y, drag[i].q.y)
                /\ RectWidth(rect) = DragDx(i) + 1
                /\ RectHeight(rect) = DragDy(i) + 1

\* C2 witness: a confirmed drag towards the top-left (q left of and above p)
C2_Witness ==
    \E i \in 1..Len(regions) :
        /\ PlainRectDrag(i)
        /\ drag[i].q.x < drag[i].p.x /\ drag[i].q.y < drag[i].p.y
        /\ EmittedRects("region", i, "region_selected") # {}

\* C3 as stated: in any mode, a release at q with |dx| < 2 or |dy| < 2 from the
\* press point p ends in cancelled and never in region_selected.
C3_AsStated ==
    \A i \in 1..Len(regions) :
        (drag[i].state = "released" /\ (DragDx(i) < 2 \/ DragDy(i) < 2))
            => /\ Emitted("region", i, "cancelled")
               /\ ~Emitted("region", i, "region_selected")

\* the extent of the selection the release handler tests: the snapped corners in
\* rectangle mode, the recorded polyline in freehand mode
SelDx(i) ==
    IF regions[i].mode = "rectangle"
    THEN Abs(regions[i].end_pos.x - regions[i].start_pos.x)
    ELSE LET xs == {regions[i].freehand_points[k].x : k \in 1..Len(regions[i].freehand_points)}
         IN  (CHOOSE a \in xs : \A b \in xs : a >= b) - (CHOOSE a \in xs : \A b \in xs : a <= b)

SelDy(i) ==
    IF regions[i].mode = "rectangle"
    THEN Abs(regions[i].end_pos.y - regions[i].start_pos.y)
    ELSE LET ys == {regions[i].freehand_points[k].y : k \in 1..Len(regions[i].freehand_points)}
         IN  (CHOOSE a \in ys : \A b \in ys : a >= b) - (CHOOSE a \in ys : \A b \in ys : a <= b)

\* C3 amended: a release ends in cancelled, and the instance never emits a
\* selection, when in rectangle mode the snapped corners differ by |dx| < 2 or
\* |dy| < 2 (with snapping without effect: the press and release points), and
\* when in freehand mode the polyline of the press and pointer-move positions
\* extends over at most 2 px on some axis.
C3_SmallSelectionCancels ==
    \A i \in 1..Len(regions) :
        (/\ drag[i].state = "released"
         /\ IF regions[i].mode = "rectangle"
            THEN SelDx(i) < 2 \/ SelDy(i) < 2
            ELSE SelDx(i) <= 2 \/ SelDy(i) <= 2)
            => /\ Emitted("region", i, "cancelled")
               /\ ~Emitted("region", i, "region_selected")

\* C3 witness: a rectangle drag of 1 px in x (and more in y) whose cancelled
\* reached the orchestrator
C3_Witness ==
    \E i \in 1..Len(regions) :
        /\ PlainRectDrag(i) /\ DragDx(i) = 1 /\ DragDy(i) >= 2
        /\ Reached("region", i, "cancelled")


\* the selection of instance i in overlay-local coordinates
LocalSelection(i) ==
    IF regions[i].mode = "freehand" /\ regions[i].freehand_points # << >>
    THEN boundingRect(regions[i].freehand_points)
    ELSE RectNormalized(RectPP(regions[i].start_pos, regions[i].end_pos))

Translated(rect, dx, dy) ==
    RectXYWH(RectX(rect) + dx, RectY(rect) + dy, RectWidth(rect), RectHeight(rect))

RegionCancelInput(i) ==
    \/ Region_keyPressEvent(i, "Escape")
    \/ \E pos \in env.pts : Region_mousePressEvent(i, "Right", pos)

\* C5: in every reachable state of a visible Region Selector, idle or in the
\* middle of a drag, the handlers of Escape and of a right-button press hide the
\* overlay and end in cancelled; a step that delivers such an input schedules
\* exactly a cancelled event (no region_selected), and every scheduled cancelled
\* event reaches the orchestrator.
C5_CancelAlways ==
    /\ [](\A i \in 1..Len(regions) :
            regions[i].visible =>
                /\ ~Region_key(regions[i], "Escape").r.visible
                /\ Region_key(regions[i], "Escape").sig = "cancelled"
                /\ \A pos \in env.pts :
                      /\ ~Region_press(regions[i], "Right", pos).r.visible
                      /\ Region_press(regions[i], "Right", pos).sig = "cancelled")
    /\ [][\A i \in 1..Len(regions) :
            RegionCancelInput(i) =>
                /\ ~regions'[i].visible
                /\ timers' = Append(timers, Timer("cancelled", "region", i, NullRect, 0))]_vars
    /\ \A i \in 1..MaxOverlays :
          (i <= Len(regions) /\ Scheduled("region", i, "cancelled"))
              ~> Reached("region", i, "cancelled")

\* C5 witness: a cancel made in the middle of a drag has reached the orchestrator
C5_Witness ==
    \E i \in 1..Len(regions) :
        /\ regions[i].selecting
        /\ ~regions[i].visible
        /\ Reached("region", i, "cancelled")
        /\ ~Emitted("region", i, "region_selected")


(***************************************************************************)
(* Properties of the Window Picker.                                        *)
(***************************************************************************)
\* the step delivers signal cb of an instance of the given kind to its slot
Delivers(kind, cb) ==
    /\ Len(delivered') = Len(delivered) + 1
    /\ delivered'[Len(delivered')].kind = kind
    /\ delivered'[Len(delivered')].cb = cb

\* the confirm inputs, delivered to instance i
PickerConfirmInput(i) ==
    \/ Picker_mousePressEvent(i, "Left")
    \/ Picker_keyPressEvent(i, "Return")

\* the cancel inputs, delivered to instance i
PickerCancelInput(i) ==
    \/ Picker_mousePressEvent(i, "Right")
    \/ Picker_keyPressEvent(i, "Escape")

\* instance i highlights a node whose rectangle on the host is not empty
HasHighlight(i) ==
    /\ pickers[i].current_hwnd # 0
    /\ ~RectIsEmpty(live_rect(env, pickers[i].current_hwnd))

\* C6: a left click or Enter/Return delivered to a visible Window Picker that
\* highlights a node stops the timer, hides the overlay and schedules exactly
\* element_selected with that node's rectangle (in overlay coordinates); with no
\* highlight it changes nothing: the overlay stays visible, the timer keeps
\* running and nothing is scheduled.
C6_ConfirmIffHighlight ==
    /\ [](\A i \in 1..Len(pickers) :
            pickers[i].visible =>
                /\ Picker_press(pickers[i], "Left").sig
                      = (IF HasHighlight(i) THEN "element_selected" ELSE "none")
                /\ Picker_key(pickers[i], env, "Return", now).sig
                      = (IF HasHighlight(i) THEN "element_selected" ELSE "none"))
    /\ [][\A i \in 1..Len(pickers) :
            PickerConfirmInput(i) =>
                IF HasHighlight(i)
                THEN /\ ~pickers'[i].timer_active
                     /\ ~pickers'[i].visible
                     /\ timers' = Append(timers,
                           Timer("element_selected", "picker", i,
                                 to_display(pickers[i],
                                            live_rect(env, pickers[i].current_hwnd)), 0))
                ELSE /\ pickers' = pickers
                     /\ timers' = timers]_vars

\* C6 witness: a confirm made after drilling into a window has scheduled
\* element_selected with the rectangle of child 2
C6_Witness ==
    \E i \in 1..Len(pickers) :
        /\ pickers[i].parent_stack # << >>
        /\ pickers[i].current_hwnd = 2
        /\ Scheduled("picker", i, "element_selected")

\* C7: in every reachable state of a visible Window Picker (before enumeration,
\* without windows, drilled, animating) the handlers of Escape and of a
\* right-button press hide the overlay and end in cancelled; a step that delivers
\* such an input stops the timer and schedules a cancelled event; every scheduled
\* cancelled event reaches the orchestrator, and the step that delivers it leaves
\* the orchestrator without a picker reference.
C7_EscapeAlwaysCancels ==
    /\ [](\A i \in 1..Len(pickers) :
            pickers[i].visible =>
                /\ ~Picker_key(pickers[i], env, "Escape", now).r.visible
                /\ Picker_key(pickers[i], env, "Escape", now).sig = "cancelled"
                /\ ~Picker_press(pickers[i], "Right").r.visible
                /\ Picker_press(pickers[i], "Right").sig = "cancelled")
    /\ [][\A i \in 1..Len(pickers) :
            PickerCancelInput(i) =>
                /\ ~pickers'[i].visible
                /\ ~pickers'[i].timer_active
                /\ timers' = Append(timers, Timer("cancelled", "picker", i, NullRect, 0))]_vars
    /\ [][Delivers("picker", "cancelled") => app'.window_picker = 0]_vars
    /\ \A i \in 1..MaxOverlays :
          (i <= Len(pickers) /\ Scheduled("picker", i, "cancelled"))
              ~> (Reached("picker", i, "cancelled") /\ app.window_picker # i)

\* C7 witness: a cancel made at drill depth 1 during an active animation has
\* reached the orchestrator
C7_Witness ==
    \E i \in 1..Len(pickers) :
        /\ pickers[i].parent_stack # << >>
        /\ pickers[i].animator.active
        /\ Reached("picker", i, "cancelled")
        /\ app.window_picker = 0

\* C8: the input handler of a confirm or cancel delivers nothing itself; the
\* terminal event of a Window Picker is delivered by the oldest pending deferred
\* callback, and before that step the instance's timer is already stopped and its
\* surface already hidden.
C8_HideThenDeferredEmit ==
    [][\A i \in 1..Len(pickers) :
          /\ (PickerConfirmInput(i) \/ PickerCancelInput(i)) => delivered' = delivered
          /\ (/\ Delivers("picker", "element_selected") \/ Delivers("picker", "cancelled")
              /\ delivered'[Len(delivered')].id = i)
                => /\ ~pickers[i].visible
                   /\ ~pickers[i].timer_active
                   /\ timers # << >>
                   /\ Head(timers) = delivered'[Len(delivered')]]_vars

\* C8 witness: element_selected has reached the orchestrator from an instance
\* that is hidden and whose timer is stopped
C8_Witness ==
    \E i \in 1..Len(pickers) :
        /\ Reached("picker", i, "element_selected")
        /\ ~pickers[i].visible
        /\ ~pickers[i].timer_active

(***************************************************************************)
(* Properties of the mode switch.                                          *)
(***************************************************************************)
\* the overlay instance whose signal the step delivers is hidden after the step
EmitterHidden ==
    LET tm == delivered'[Len(delivered')]
    IN  IF tm.kind = "region" THEN ~regions'[tm.id].visible
        ELSE ~pickers'[tm.id].visible /\ ~pickers'[tm.id].timer_active

\* C9 as stated: in both directions, the step that handles a switch event hides
\* the emitting overlay and constructs no overlay; the other overlay is
\* constructed in a later, deferred step.
C9_AsStated ==
    [][(Delivers("region", "switch_to_window") \/ Delivers("picker", "switch_to_region"))
          => /\ EmitterHidden
             /\ Len(regions') = Len(regions)
             /\ Len(pickers') = Len(pickers)]_vars

\* the snapshots taken by a capture request
RequestShots == {k \in 1..Len(shots) : shots[k].cause = "request"}

\* the snapshots the overlays constructed so far were given
OverlayShots ==
    {regions[i].screenshot : i \in 1..Len(regions)}
        \cup {pickers[i].screenshot : i \in 1..Len(pickers)}

\* C10: while overlays of a capture session exist, whatever the number of
\* switches, the snapshot routine has been called exactly once for the session's
\* request, every overlay holds that snapshot, and no step that handles a switch
\* or opens the other overlay takes a snapshot.
C10_SnapshotIdentity ==
    /\ [](\A s \in 1..issued :
            Cardinality({k \in RequestShots : shots[k].session = s}) <= 1)
    /\ [](OverlayShots # {} =>
            /\ Cardinality(RequestShots) = 1
            /\ OverlayShots = RequestShots)
    /\ [][(\/ Delivers("region", "switch_to_window")
           \/ Delivers("picker", "switch_to_region")
           \/ (timers # << >> /\ Head(timers).cb = "start_window_picker"
                 /\ timers' # timers))
             => shots' = shots]_vars

\* C10 witness: a region overlay, a picker and a second region overlay were
\* opened by a Region-to-Window and a Window-to-Region switch
C10_Witness ==
    /\ Len(regions) = 2
    /\ Len(pickers) = 1
    /\ Reached("region", 1, "switch_to_window")
    /\ Reached("picker", 1, "switch_to_region")
    /\ regions[2].visible


(***************************************************************************)
(* Properties of the orchestrator.                                         *)
(***************************************************************************)
\* the overlay instances the orchestrator holds: self._overlay, self._window_picker
AliveOverlays ==
    (IF app.overlay # 0 THEN {<< "region", app.overlay >>} ELSE {})
        \cup (IF app.window_picker # 0 THEN {<< "picker", app.window_picker >>} ELSE {})

\* the step constructs an overlay
Constructs == Len(regions') > Len(regions) \/ Len(pickers') > Len(pickers)

\* C11 as stated: at every moment at most one selector overlay is alive, for any
\* interleaving of capture requests, switches, confirms and cancels; and when a
\* step constructs an overlay, every overlay that existed before it has been
\* asked to hide.
C11_AsStated ==
    /\ [](Cardinality(AliveOverlays) <= 1)
    /\ [][Constructs => /\ \A i \in 1..Len(regions) : ~regions'[i].visible
                        /\ \A i \in 1..Len(pickers) : ~pickers'[i].visible]_vars


\* the step runs the callback of a capture request, and the snapshot fails
SnapshotFails ==
    /\ requests # << >>
    /\ Head(requests).kind # "timed"
    /\ requests' = Tail(requests)
    /\ shots' = shots

\* C12: when the snapshot of a capture request fails, for the region entry
\* points and for the window entry point, no overlay is constructed or shown and
\* the orchestrator's overlay references stay as they were.
C12_NoOverlayWithoutSnapshot ==
    [][SnapshotFails => /\ regions' = regions
                        /\ pickers' = pickers
                        /\ app' = app
                        /\ timers' = timers]_vars

\* C12 witness: the snapshot of the second request failed while the overlay of
\* the first was open, and that overlay is still the only one
C12_Witness ==
    /\ issued = 2
    /\ requests = << >>
    /\ Len(shots) = 1
    /\ shots[1].session = 1
    /\ Len(regions) + Len(pickers) = 1
    /\ Cardinality(AliveOverlays) = 1


\* the confirm events that have reached the orchestrator, with their rectangles
ConfirmsReached ==
    {k \in 1..Len(delivered) : delivered[k].cb \in {"region_selected", "element_selected"}}

\* the cancel events that have reached the orchestrator
CancelsReached == {k \in 1..Len(delivered) : delivered[k].cb = "cancelled"}

\* the step runs the countdown callback of a confirmed rectangle
TimedFire ==
    /\ requests # << >>
    /\ Head(requests).kind = "timed"
    /\ requests' = Tail(requests)
    /\ \E k \in ConfirmsReached : delivered[k].rect = Head(requests).rect

\* C13: in a capture session the crop/save/edit pipeline is invoked at most
\* once, and only by the step that handles a confirm event (or by the countdown
\* such a confirm started), with a rectangle that a confirm event carried; a
\* cancel or a mode switch never invokes it; and the session never yields both a
\* confirmed result and a cancel.
C13_TwoOutcomes ==
    /\ [](Len(pipeline) <= 1)
    /\ [](Cardinality(ConfirmsReached) + Cardinality(CancelsReached) <= 1)
    /\ [](pipeline # << >> => /\ CancelsReached = {}
                              /\ \E k \in ConfirmsReached :
                                    RectIntersected(delivered[k].rect, pipeline[1].rect)
                                        = pipeline[1].rect)
    /\ [][pipeline' # pipeline =>
            \/ Delivers("region", "region_selected")
            \/ Delivers("picker", "element_selected")
            \/ TimedFire]_vars
    /\ [][(\/ Delivers("region", "cancelled") \/ Delivers("picker", "cancelled")
           \/ Delivers("region", "switch_to_window")
           \/ Delivers("picker", "switch_to_region"))
             => pipeline' = pipeline /\ requests' = requests]_vars

\* C13 witness: after a switch from the Region Selector, the Window Picker's
\* confirm reached the orchestrator and the pipeline was invoked once
C13_Witness ==
    /\ Reached("region", 1, "switch_to_window")
    /\ Reached("picker", 1, "element_selected")
    /\ Len(pipeline) = 1
    /\ AliveOverlays = {}


\* the step runs the deferred callback cb
Runs(cb) ==
    /\ timers # << >>
    /\ Head(timers).cb = cb
    /\ delivered' = Append(delivered, Head(timers))

\* C14 as stated: the overlay a mode switch opens is in its initial state (Region
\* Selector: not selecting, no freehand points; Window Picker: empty drill
\* stack, empty child cache, no highlight when constructed), and before any
\* pointer-move event its current position is the last known cursor position
\* (for the Window Picker: once its deferred initialisation has run).
C14_AsStated ==
    /\ [][Delivers("picker", "switch_to_region") =>
            /\ Len(regions') = Len(regions) + 1
            /\ ~regions'[Len(regions')].selecting
            /\ regions'[Len(regions')].freehand_points = << >>
            /\ mapToGlobal(regions'[Len(regions')], regions'[Len(regions')].current_pos)
                  = cursor']_vars
    /\ [][Runs("start_window_picker") =>
            /\ Len(pickers') = Len(pickers) + 1
            /\ pickers'[Len(pickers')].parent_stack = << >>
            /\ pickers'[Len(pickers')].child_cache = << >>
            /\ pickers'[Len(pickers')].current_hwnd = 0]_vars
    /\ [][(Runs("init_windows") /\ Reached("region", 1, "switch_to_window")) =>
            /\ pickers'[Head(timers).id].parent_stack = << >>
            /\ pickers'[Head(timers).id].child_cache = << >>
            /\ mapToGlobal(pickers'[Head(timers).id], pickers'[Head(timers).id].current_pos)
                  = cursor']_vars


(***************************************************************************)
(* Properties of the drill stack.  In the window tree R is handle 1, its   *)
(* children A and B are handles 2 and 3.                                   *)
(***************************************************************************)
\* the screen points inside the window with handle h
InsideWin(e, h) ==
    {Pt(x, y) : x \in live_rect(e, h).x1..live_rect(e, h).x2,
                y \in live_rect(e, h).y1..live_rect(e, h).y2}

\* picker p has descended into the root R
DescendedIntoR(p) == p.parent_stack # << >> /\ p.parent_stack[Len(p.parent_stack)] = 1

\* C15: with the top-level window R and its non-overlapping children A and B,
\* once R was highlighted and the descend key pressed, a pointer move to any
\* point inside A makes A, with A's rectangle, the highlighted node (not R).
C15_DescendHighlightsChild ==
    /\ [](\A i \in 1..Len(pickers) : DescendedIntoR(pickers[i]) =>
            \A g \in InsideWin(env, 2) :
                /\ Picker_move(pickers[i], env, mapFromGlobal(pickers[i], g), now).current_hwnd = 2
                /\ Picker_move(pickers[i], env, mapFromGlobal(pickers[i], g), now).current_rect
                      = live_rect(env, 2))
    /\ [][\A i \in 1..Len(pickers) :
            (/\ DescendedIntoR(pickers[i])
             /\ pickers'[i].current_pos # pickers[i].current_pos
             /\ mapToGlobal(pickers'[i], pickers'[i].current_pos) \in InsideWin(env, 2))
                => pickers'[i].current_hwnd = 2]_vars

\* C15 witness: the picker descended into R with the pointer at (35, 25), outside
\* A (the animation of R's highlight started there), and the pointer is now
\* inside A, which is highlighted
C15_Witness ==
    /\ Len(pickers) = 1
    /\ pickers[1].visible
    /\ pickers[1].parent_stack = << 1 >>
    /\ mapToGlobal(pickers[1], pickers[1].current_pos) \in InsideWin(env, 2)
    /\ pickers[1].current_hwnd = 2
    /\ pickers[1].animator.start_rect.x = FInt(35)


\* what the ascend key leaves of picker p
Ascended(p) == page_up(p, env, now)

\* the top entry of p's drill stack
TopParent(p) == p.parent_stack[Len(p.parent_stack)]

\* the ascend key on p, whose drill stack is not empty, as C16 states it
AscendPops(p, q) ==
    /\ q.parent_stack = SubSeq(p.parent_stack, 1, Len(p.parent_stack) - 1)
    /\ q.parent_stack = << >> =>
          q.current_hwnd = FirstContaining(q.top_windows, 1,
                              mapToGlobal(q, q.current_pos).x,
                              mapToGlobal(q, q.current_pos).y).hwnd
    /\ q.parent_stack # << >> =>
          q.current_hwnd = hit_test(q, env, mapToGlobal(q, q.current_pos)).hwnd
    /\ ~CacheHas(q.child_cache, TopParent(p))
    /\ enum_direct_children(q, env, TopParent(p)).called

\* C16 as stated: the ascend key with a non-empty drill stack removes the top
\* entry P, hit-testing returns to the level below (the top-level windows when
\* the stack becomes empty), P's entry is gone from the child cache and the next
\* descend into P calls the enumeration again; with an empty stack the key
\* changes nothing.
C16_AsStated ==
    \A i \in 1..Len(pickers) :
        IF pickers[i].parent_stack = << >>
        THEN Ascended(pickers[i]) = pickers[i]
        ELSE AscendPops(pickers[i], Ascended(pickers[i]))


(***************************************************************************)
(* Properties of edge snapping.                                            *)
(***************************************************************************)
\* the coordinates the snap query is asked about
SnapRange == 0..80

\* the stored edges of a list within 8 px of coordinate c
WithinTolerance(edges, c) ==
    {e \in {edges[k] : k \in 1..Len(edges)} : c - e <= 8 /\ e - c <= 8}

\* the answer C17 states: the smallest such edge, or c itself
SnapQuery(edges, c) ==
    IF WithinTolerance(edges, c) = {} THEN c
    ELSE CHOOSE e \in WithinTolerance(edges, c) : \A f \in WithinTolerance(edges, c) : e <= f

\* the guide field C17 states for coordinate c
SnapGuide(edges, c) ==
    IF WithinTolerance(edges, c) = {} THEN None ELSE Some(SnapQuery(edges, c))

\* the step moves the pointer over Region Selector i while snapping applies to
\* the move (snapping enabled; no freehand stroke in progress)
SnappedMove(i) ==
    /\ i <= Len(regions)
    /\ regions[i].visible
    /\ regions[i].snap_enabled
    /\ ~(regions[i].selecting /\ regions[i].mode = "freehand")
    /\ regions'[i].current_pos # regions[i].current_pos

\* C17: both edge lists are in ascending order, and with snapping enabled the
\* query for a coordinate c on an axis answers the first edge e of that axis's
\* list with |c - e| <= 8, and c itself when no stored edge is within 8 px.
C17_SnapsToFirstEdge ==
    /\ [](\A i \in 1..Len(regions) :
            /\ \A k \in 2..Len(regions[i].snap_edges_v) :
                  regions[i].snap_edges_v[k - 1] < regions[i].snap_edges_v[k]
            /\ \A k \in 2..Len(regions[i].snap_edges_h) :
                  regions[i].snap_edges_h[k - 1] < regions[i].snap_edges_h[k])
    /\ [](\A i \in 1..Len(regions) : regions[i].snap_enabled =>
            \A c \in SnapRange :
                /\ snap_point(regions[i], Pt(c, 0)).pos.x = SnapQuery(regions[i].snap_edges_v, c)
                /\ snap_point(regions[i], Pt(0, c)).pos.y = SnapQuery(regions[i].snap_edges_h, c))
    /\ [][\A i \in 1..Len(regions') : SnappedMove(i) =>
            /\ regions'[i].snapped_x
                  = SnapGuide(regions[i].snap_edges_v, regions'[i].current_pos.x)
            /\ regions'[i].snapped_y
                  = SnapGuide(regions[i].snap_edges_h, regions'[i].current_pos.y)]_vars

\* C17 witness: the pointer is at x = 17, within 8 px of the edges 11 and 20, and
\* the query snapped it to 11, the first of them; at y = 0 no edge is near
C17_Witness ==
    /\ Len(regions) = 1
    /\ regions[1].visible
    /\ regions[1].snap_enabled
    /\ regions[1].current_pos = Pt(17, 0)
    /\ regions[1].snapped_x = Some(11)
    /\ regions[1].snapped_y = None


\* coordinates at, next to and between the stored edges
SnapCoords == {0, 2, 3, 11, 17, 20, 28, 45, 80}

\* Region Selector r after a snap query: the guide fields the query left
AfterQuery(r, q) == [r EXCEPT !.snapped_x = q.snapped_x, !.snapped_y = q.snapped_y]

\* C18: for every point, a second snap query for the same point, with no toggle
\* in between, returns the snapped point of the first and leaves the guide
\* fields as the first left them; so does a second pointer move to the point
\* (outside a freehand stroke, which records every move).
C18_SnapQueryIdempotent ==
    \A i \in 1..Len(regions) :
        /\ \A x \in SnapCoords, y \in SnapCoords :
              snap_point(AfterQuery(regions[i], snap_point(regions[i], Pt(x, y))), Pt(x, y))
                  = snap_point(regions[i], Pt(x, y))
        /\ ~(regions[i].selecting /\ regions[i].mode = "freehand") =>
              \A pos \in env.pts :
                  Region_move(Region_move(regions[i], pos), pos) = Region_move(regions[i], pos)

\* C18 witness: a query snapped the pointer on both axes and left both guides
C18_Witness ==
    /\ Len(regions) = 1
    /\ regions[1].visible
    /\ regions[1].snap_enabled
    /\ ~regions[1].selecting
    /\ regions[1].current_pos = Pt(3, 35)
    /\ regions[1].snapped_x = Some(11)
    /\ regions[1].snapped_y = Some(31)


\* the outcome of a query on Region Selector r: which axes snapped
SnapOutcome(r, pos) ==
    << snap_point(r, pos).snapped_x # None, snap_point(r, pos).snapped_y # None >>

\* C19: with snapping enabled, the snapped X of a point is a function of its X
\* and the vertical edges alone, the snapped Y of its Y and the horizontal edges
\* alone; an axis without an edge within tolerance keeps its coordinate exactly;
\* and where edges are stored, the pointer positions give all four outcomes
\* (X only, Y only, both, neither).
C19_AxesIndependent ==
    \A i \in 1..Len(regions) : regions[i].snap_enabled =>
        /\ \A x \in SnapCoords, y \in SnapCoords :
              /\ snap_point(regions[i], Pt(x, y))
                    = [pos |-> Pt(SnapQuery(regions[i].snap_edges_v, x),
                                  SnapQuery(regions[i].snap_edges_h, y)),
                       snapped_x |-> SnapGuide(regions[i].snap_edges_v, x),
                       snapped_y |-> SnapGuide(regions[i].snap_edges_h, y)]
              /\ WithinTolerance(regions[i].snap_edges_v, x) = {} =>
                    snap_point(regions[i], Pt(x, y)).pos.x = x
              /\ WithinTolerance(regions[i].snap_edges_h, y) = {} =>
                    snap_point(regions[i], Pt(x, y)).pos.y = y
        /\ (regions[i].snap_edges_v # << >> /\ regions[i].snap_edges_h # << >>) =>
              {SnapOutcome(regions[i], pos) : pos \in env.pts} = BOOLEAN \X BOOLEAN

\* C19 witness: the pointer at (0, 3) snapped on Y only, and X stayed 0
C19_Witness ==
    /\ Len(regions) = 1
    /\ regions[1].visible
    /\ regions[1].snap_enabled
    /\ regions[1].selecting
    /\ regions[1].current_pos = Pt(0, 3)
    /\ regions[1].end_pos = Pt(0, 11)
    /\ regions[1].snapped_x = None
    /\ regions[1].snapped_y = Some(11)


(***************************************************************************)
(* Properties of the Rectangle Animator.                                   *)
(***************************************************************************)
\* the times of the model's clock, and one step beyond
ClockTimes == {k * Quantum : k \in 0..(MaxTicks + 1)}

\* C20: a tick at which the elapsed time has reached the duration sets the
\* current rectangle exactly to the target rectangle and clears the active
\* flag; a tick of an animator that is not active, at any later time, reports no
\* repaint and leaves the animator as it is; and an animator that is not active
\* changes only when it is given a new target.
C20_AnimatorCompletes ==
    /\ [](\A i \in 1..Len(pickers) : \A t \in ClockTimes :
            (pickers[i].animator.active
                /\ t - pickers[i].animator.start_time >= DURATION_MS)
              => /\ tick(pickers[i].animator, t).a.current_rect
                      = pickers[i].animator.end_rect
                 /\ ~tick(pickers[i].animator, t).a.active
                 /\ tick(tick(pickers[i].animator, t).a, t + Quantum)
                      = [a |-> tick(pickers[i].animator, t).a, repaint |-> FALSE])
    /\ [](\A i \in 1..Len(pickers) : \A t \in ClockTimes :
            (~pickers[i].animator.active /\ t >= now)
              => tick(pickers[i].animator, t)
                    = [a |-> pickers[i].animator, repaint |-> FALSE])
    /\ [][\A i \in 1..Len(pickers) :
            (~pickers[i].animator.active /\ pickers'[i].animator # pickers[i].animator)
              => \/ pickers'[i].animator.end_rect # pickers[i].animator.end_rect
                 \/ pickers'[i].animator.active]_vars

\* C20 witness: the animation of a highlight has run its 700 ms, a tick ended
\* it, and the current rectangle is the target rectangle
C20_Witness ==
    /\ Len(pickers) = 1
    /\ pickers[1].visible
    /\ pickers[1].current_hwnd # 0
    /\ ~pickers[1].animator.active
    /\ now >= pickers[1].animator.start_time + DURATION_MS
    /\ pickers[1].animator.current_rect = pickers[1].animator.end_rect
    /\ pickers[1].animator.current_rect = ToRectF(to_display(pickers[1], pickers[1].current_rect))


\* elapsed times strictly between 0 and the duration: a quarter, half and three
\* quarters of it
ElapsedSamples == {DURATION_MS \div 4, DURATION_MS \div 2, 3 * (DURATION_MS \div 4)}

\* the eased progress C21 states for elapsed time el: 1 - (1 - el/duration)^5
EasedProgress(el) ==
    FSub(FInt(1),
         FMul(FSub(FInt(1), Frac(el, DURATION_MS)),
              FMul(FMul(FSub(FInt(1), Frac(el, DURATION_MS)),
                        FSub(FInt(1), Frac(el, DURATION_MS))),
                   FMul(FSub(FInt(1), Frac(el, DURATION_MS)),
                        FSub(FInt(1), Frac(el, DURATION_MS))))))

\* c lies strictly between s and e where they differ, and is s where they do not
StrictlyBetween(s, c, e) ==
    IF s = e THEN c = s
    ELSE (FLess(s, c) /\ FLess(c, e)) \/ (FLess(e, c) /\ FLess(c, s))

\* the rectangle r is the interpolation of animation a at eased progress k
InterpolatedAt(a, r, k) ==
    /\ r.x = FAdd(a.start_rect.x, FMul(FSub(a.end_rect.x, a.start_rect.x), k))
    /\ r.y = FAdd(a.start_rect.y, FMul(FSub(a.end_rect.y, a.start_rect.y), k))
    /\ r.w = FAdd(a.start_rect.w, FMul(FSub(a.end_rect.w, a.start_rect.w), k))
    /\ r.h = FAdd(a.start_rect.h, FMul(FSub(a.end_rect.h, a.start_rect.h), k))

\* the fields of r lie strictly between those of a's start and end rectangles
BetweenStartAndEnd(a, r) ==
    /\ StrictlyBetween(a.start_rect.x, r.x, a.end_rect.x)
    /\ StrictlyBetween(a.start_rect.y, r.y, a.end_rect.y)
    /\ StrictlyBetween(a.start_rect.w, r.w, a.end_rect.w)
    /\ StrictlyBetween(a.start_rect.h, r.h, a.end_rect.h)

\* the start rectangle of a has integer coordinates, or those of one tick at
\* half the duration (denominator 2^5): the products below stay within TLC's
\* integers
NearIntegerStart(a) ==
    /\ a.start_rect.x.d <= 32
    /\ a.start_rect.y.d <= 32
    /\ a.start_rect.w.d <= 32
    /\ a.start_rect.h.d <= 32

PressStep(i) ==
    /\ i <= Len(regions)
    /\ ~regions[i].selecting
    /\ regions'[i].selecting

\* C22 as stated: in rectangle mode the anchor of a drag is the raw pointer
\* position of the primary-button press, never a snapped coordinate.
C22_AsStated ==
    \A i \in 1..Len(regions) :
        (regions[i].selecting /\ regions[i].mode = "rectangle")
            => regions[i].start_pos = drag[i].p

\* C22 amended: in rectangle mode the anchor is the answer of the snap query
\* for the press position (the raw position where snapping is disabled or no
\* edge is within 8 px on an axis), and in freehand mode the raw press position;
\* the anchor stays where it is for the rest of the drag, and each pointer move
\* of a rectangle drag puts the moving endpoint at the snap query's answer.
C22_AnchorSnappedAtPress ==
    /\ [][\A i \in 1..Len(regions') : PressStep(i) =>
            /\ regions[i].mode = "rectangle" =>
                  /\ regions'[i].start_pos = snap_point(regions[i], drag'[i].p).pos
                  /\ regions'[i].start_pos.x
                        = IF regions[i].snap_enabled
                          THEN SnapQuery(regions[i].snap_edges_v, drag'[i].p.x)
                          ELSE drag'[i].p.x
                  /\ regions'[i].start_pos.y
                        = IF regions[i].snap_enabled
                          THEN SnapQuery(regions[i].snap_edges_h, drag'[i].p.y)
                          ELSE drag'[i].p.y
            /\ regions[i].mode = "freehand" => regions'[i].start_pos = drag'[i].p
            /\ regions'[i].end_pos = regions'[i].start_pos]_vars
    /\ [][\A i \in 1..Len(regions) :
            regions[i].selecting => regions'[i].start_pos = regions[i].start_pos]_vars
    /\ [][\A i \in 1..Len(regions) :
            (/\ regions[i].selecting /\ regions'[i].selecting
             /\ regions[i].mode = "rectangle"
             /\ regions'[i].current_pos # regions[i].current_pos)
                => regions'[i].end_pos
                      = snap_point(regions[i], regions'[i].current_pos).pos]_vars

\* C22 witness: a rectangle drag pressed at (3, 1), 8 px from the window edge
\* x = 11, is anchored at (11, 1)
C22_Witness ==
    /\ Len(regions) = 1
    /\ regions[1].mode = "rectangle"
    /\ regions[1].selecting
    /\ drag[1].p = Pt(3, 1)
    /\ regions[1].start_pos = Pt(11, 1)


\* the axis-aligned bounding box of a set of points: its corner, and its extent
\* on each axis
PointsBox(S) ==
    LET xs == {q.x : q \in S}
        ys == {q.y : q \in S}
        minx == CHOOSE a \in xs : \A b \in xs : a <= b
        maxx == CHOOSE a \in xs : \A b \in xs : a >= b
        miny == CHOOSE a \in ys : \A b \in ys : a <= b
        maxy == CHOOSE a \in ys : \A b \in ys : a >= b
    IN  RectXYWH(minx, miny, maxx - minx, maxy - miny)

\* the points Region Selector i recorded during its freehand drag
RecordedPoints(i) ==
    {regions[i].freehand_points[k] : k \in 1..Len(regions[i].freehand_points)}

\* the released freehand drag of instance i confirms with box if both its
\* dimensions exceed 2 px, and cancels otherwise
FreehandOutcome(i, box) ==
    IF RectWidth(box) > 2 /\ RectHeight(box) > 2
    THEN /\ EmittedRects("region", i, "region_selected") = {box}
         /\ ~Emitted("region", i, "cancelled")
    ELSE /\ Emitted("region", i, "cancelled")
         /\ EmittedRects("region", i, "region_selected") = {}

\* C23 as stated: on release in freehand mode the selection is the bounding box
\* of the press point, every pointer position during the drag and the release
\* point; the overlay confirms with that box iff both its dimensions exceed 2 px.
C23_AsStated ==
    \A i \in 1..Len(regions) :
        (regions[i].mode = "freehand" /\ drag[i].state = "released")
            => FreehandOutcome(i, PointsBox(RecordedPoints(i) \cup {drag[i].q}))

\* C23 amended: on release in freehand mode the selection is the bounding box of
\* the press point and the pointer-move positions of the drag (the release point
\* is not part of the polyline); the overlay confirms with that box iff both its
\* dimensions exceed 2 px, and cancels otherwise.
C23_FreehandBox ==
    \A i \in 1..Len(regions) :
        (regions[i].mode = "freehand" /\ drag[i].state = "released")
            => /\ regions[i].freehand_points[1] = drag[i].p
               /\ FreehandOutcome(i, PointsBox(RecordedPoints(i)))

\* C23 witness: a freehand stroke pressed at (0, 0), moved to (3, 3) and released
\* at (1, 1) confirmed with the box of the two recorded points
C23_Witness ==
    /\ Len(regions) = 1
    /\ regions[1].mode = "freehand"
    /\ drag[1] = [state |-> "released", p |-> Pt(0, 0), q |-> Pt(1, 1)]
    /\ regions[1].freehand_points = << Pt(0, 0), Pt(3, 3) >>
    /\ EmittedRects("region", 1, "region_selected") = {RectXYWH(0, 0, 3, 3)}


\* C24: the toggle key flips snapping and does nothing else; the setting changes
\* in no other step (it persists through presses, moves and releases); and
\* while snapping is disabled every snap query answers its input point, so the
\* press, the moves and the release of a drag use the raw pointer positions.
C24_SnapToggle ==
    /\ [](\A i \in 1..Len(regions) :
            /\ Region_key(regions[i], "S").r.snap_enabled = ~regions[i].snap_enabled
            /\ Region_key(Region_key(regions[i], "S").r, "S").r = regions[i]
            /\ Region_key(regions[i], "S").sig = "none")
    /\ [][\A i \in 1..Len(regions) :
            regions'[i].snap_enabled # regions[i].snap_enabled
              => /\ regions' = [regions EXCEPT ![i].snap_enabled = ~@]
                 /\ timers' = timers]_vars
    /\ [](\A i \in 1..Len(regions) : ~regions[i].snap_enabled =>
            \A pos \in env.pts :
                /\ snap_point(regions[i], pos).pos = pos
                /\ Region_press(regions[i], "Left", pos).r.start_pos = pos
                /\ regions[i].selecting =>
                      /\ Region_move(regions[i], pos).end_pos = pos
                      /\ Region_release(regions[i], "Left", pos).r.end_pos = pos)

\* C24 witness: with snapping toggled off, a rectangle drag pressed at (3, 1),
\* 8 px from a stored edge, is anchored at (3, 1)
C24_Witness ==
    /\ Len(regions) = 1
    /\ regions[1].mode = "rectangle"
    /\ regions[1].snap_edges_v # << >>
    /\ ~regions[1].snap_enabled
    /\ regions[1].selecting
    /\ drag[1].p = Pt(3, 1)
    /\ regions[1].start_pos = Pt(3, 1)
    /\ regions[1].end_pos = Pt(3, 3)


\* the fields of a Region Selector that a pointer move may change while no
\* drag is active
IdleMoveFrame(r, q) ==
    [r EXCEPT !.current_pos = q.current_pos,
              !.snapped_x = q.snapped_x, !.snapped_y = q.snapped_y]

\* C25: while no drag is active, a pointer move changes only the current
\* pointer position and the snap-guide coordinates (set to the snap query's
\* answer); the selecting flag, the anchor and end points, the freehand list,
\* the snap flag and the edge sets are unchanged and nothing is emitted or
\* scheduled.
C25_IdleMoveFrame ==
    /\ [](\A i \in 1..Len(regions) : ~regions[i].selecting =>
            \A pos \in env.pts :
                LET q == Region_move(regions[i], pos)
                IN  /\ q = IdleMoveFrame(regions[i], q)
                    /\ q.current_pos = pos
                    /\ q.snapped_x = snap_point(regions[i], pos).snapped_x
                    /\ q.snapped_y = snap_point(regions[i], pos).snapped_y)
    /\ [][\A i \in 1..Len(regions) :
            (~regions[i].selecting /\ regions'[i].current_pos # regions[i].current_pos)
              => /\ regions' = [regions EXCEPT ![i] = IdleMoveFrame(@, regions'[i])]
                 /\ timers' = timers
                 /\ delivered' = delivered
                 /\ app' = app]_vars

\* C25 witness: an idle overlay whose pointer moved to (3, 1) shows a vertical
\* guide and is otherwise as constructed
C25_Witness ==
    /\ Len(regions) = 1
    /\ regions[1].visible
    /\ drag[1].state = "none"
    /\ regions[1].current_pos = Pt(3, 1)
    /\ regions[1].snapped_x # None
    /\ ~regions[1].selecting
    /\ regions[1].start_pos = Pt(0, 0)
    /\ regions[1].end_pos = Pt(0, 0)
    /\ regions[1].freehand_points = << >>


(***************************************************************************)
(* Properties of the Window Picker's hit-testing and drilling.             *)
(***************************************************************************)
\* the positions in the top-level list whose rectangle contains the point g
TopHits(p, g) ==
    {k \in 1..Len(p.top_windows) : RectContains(p.top_windows[k].rect, g.x, g.y)}

\* p highlights the earliest top-level node containing g, or nothing
RootHighlightAt(p, g) ==
    IF TopHits(p, g) = {}
    THEN p.current_hwnd = 0 /\ p.current_rect = NullRect
    ELSE LET k == CHOOSE k \in TopHits(p, g) : \A m \in TopHits(p, g) : k <= m
         IN  /\ p.current_hwnd = p.top_windows[k].hwnd
             /\ p.current_rect = p.top_windows[k].rect

\* C26: with an empty drill stack, after a pointer move the highlighted node
\* is the first top-level node, in enumeration order, whose rectangle contains
\* the pointer's screen position, and the highlight is cleared (no node, null
\* rectangle) when no top-level node contains it.
C26_RootHitTest ==
    /\ [](\A i \in 1..Len(pickers) :
            (pickers[i].visible /\ pickers[i].parent_stack = << >>) =>
               /\ RootHighlightAt(pickers[i], mapToGlobal(pickers[i], pickers[i].current_pos))
               /\ \A pos \in env.pts :
                     RootHighlightAt(Picker_move(pickers[i], env, pos, now),
                                     mapToGlobal(pickers[i], pos)))
    /\ [][\A i \in 1..Len(pickers) :
            (/\ pickers[i].visible
             /\ pickers'[i].parent_stack = << >>
             /\ pickers'[i].current_pos # pickers[i].current_pos)
              => RootHighlightAt(pickers'[i], cursor')]_vars

\* C26 witness: the pointer moved from a point where R and S overlap, with R
\* highlighted, to a point over no titled window, and the highlight is cleared
C26_Witness ==
    /\ Len(pickers) = 1
    /\ pickers[1].visible
    /\ pickers[1].parent_stack = << >>
    /\ Len(pickers[1].top_windows) = 2
    /\ pickers[1].current_pos = Pt(5, 5)
    /\ pickers[1].current_hwnd = 0
    /\ pickers[1].animator.end_rect = ToRectF(RectXYWH(20, 20, 40, 40))
    /\ Cardinality(TopHits(pickers[1], Pt(35, 25))) = 2


\* the positions in the cached child list of parent h whose rectangle contains g
ChildHits(p, h, g) ==
    IF CacheHas(p.child_cache, h)
    THEN {k \in 1..Len(CacheGet(p.child_cache, h)) :
             RectContains(CacheGet(p.child_cache, h)[k].rect, g.x, g.y)}
    ELSE {}

\* p highlights the earliest cached child of the top of its drill stack that
\* contains g, or that top entry when no cached child contains g
NonRootHighlightAt(p, g) ==
    LET top == p.parent_stack[Len(p.parent_stack)]
        hits == ChildHits(p, top, g)
    IN  /\ p.current_hwnd # 0
        /\ IF hits = {}
           THEN p.current_hwnd = top
           ELSE p.current_hwnd =
                   CacheGet(p.child_cache, top)[CHOOSE k \in hits : \A m \in hits : k <= m].hwnd

\* C27 as stated: whenever the drill stack is non-empty (every handler that
\* changes the level or the pointer runs the hit-test before it returns), a
\* highlight exists and it is the first cached direct child of the stack's top
\* entry containing the pointer, or that top entry when no child contains it.
C27_AsStated ==
    \A i \in 1..Len(pickers) :
        (pickers[i].visible /\ pickers[i].parent_stack # << >>)
          => NonRootHighlightAt(pickers[i], mapToGlobal(pickers[i], pickers[i].current_pos))


\* the direct children the child-enumeration collaborator answers for node h:
\* the cached list when there is one, else the host's list
EnumeratedChildren(p, h) ==
    IF CacheHas(p.child_cache, h) THEN CacheGet(p.child_cache, h)
    ELSE direct_children(env, h)

\* a highlight exists and it has at least one direct child
CanDescend(p) == p.current_hwnd # 0 /\ EnumeratedChildren(p, p.current_hwnd) # << >>

\* animator a was started at time t from a zero-size rectangle at pos
GrownFromPoint(a, pos, t) ==
    /\ a.start_rect = RectF(FInt(pos.x), FInt(pos.y), FInt(0), FInt(0))
    /\ a.current_rect = a.start_rect
    /\ a.start_time = t
    /\ a.active

\* q is p after a descend: the highlighted node is pushed; the old highlight is
\* gone and the grow-from-point animation is armed, and where the hit-test at
\* the new level gives a highlight (even the same node again) it has grown
\* from the pointer
DescendedFrom(p, q) ==
    /\ q.parent_stack = Append(p.parent_stack, p.current_hwnd)
    /\ \/ /\ q.current_hwnd = 0
          /\ q.first_highlight
          /\ q.animator = p.animator
       \/ /\ q.current_hwnd # 0
          /\ ~q.first_highlight
          /\ GrownFromPoint(q.animator, p.current_pos, now)
          /\ q.animator.end_rect = ToRectF(to_display(q, q.current_rect))

MoveCalls(p, pos) ==
    find_window_at_calls(p, env, mapToGlobal(p, pos).x, mapToGlobal(p, pos).y)

\* the picker inside the ascend handler, after the pop and the eviction and
\* before the hit-test at the level below
Popped(p) ==
    [p EXCEPT !.parent_stack = SubSeq(@, 1, Len(@) - 1),
              !.child_cache = SelectSeq(@, LAMBDA c : c.parent # p.parent_stack[Len(p.parent_stack)])]

\* the hit-test run by an ascend enumerates no children
AscendEnumeratesNothing(p) ==
    \A k \in 1..Len(MoveCalls(Popped(p), p.current_pos)) :
        MoveCalls(Popped(p), p.current_pos)[k].fn # "enum_direct_children"

\* C29 as stated: while a parent P is on top of the drill stack its children
\* are cached, so that they are enumerated at most once between the descend
\* into P and the matching ascend (an ascend back to the level of P does not
\* enumerate them again), and a pointer move at that level makes no call into
\* the Window Hierarchy Source at all.
C29_AsStated ==
    \A i \in 1..Len(pickers) :
        (pickers[i].visible /\ pickers[i].parent_stack # << >>) =>
           /\ CacheHas(pickers[i].child_cache,
                       pickers[i].parent_stack[Len(pickers[i].parent_stack)])
           /\ Len(pickers[i].parent_stack) >= 2 => AscendEnumeratesNothing(pickers[i])
           /\ \A pos \in env.pts : MoveCalls(pickers[i], pos) = << >>


(***************************************************************************)
(* Properties of the Window Picker's highlight animation.                  *)
(***************************************************************************)
\* the overlay-local rectangle of the node p highlights
HighlightTarget(p) == ToRectF(to_display(p, p.current_rect))

\* a step of picker i that gives it a highlight on another node than before,
\* or a highlight at another drill level
HighlightChanges(i) ==
    /\ pickers'[i].current_hwnd # 0
    /\ \/ pickers'[i].current_hwnd # pickers[i].current_hwnd
       \/ pickers'[i].parent_stack # pickers[i].parent_stack

\* the step started an animation at the present time from rectangle s
StartsAnimationFrom(i, s) ==
    /\ pickers'[i].animator.start_rect = s
    /\ pickers'[i].animator.end_rect = HighlightTarget(pickers'[i])
    /\ pickers'[i].animator.start_time = now
    /\ pickers'[i].animator.active

\* the step started the grow-from-point animation at the pointer
StartsFromCursor(i) ==
    /\ GrownFromPoint(pickers'[i].animator, pickers'[i].current_pos, now)
    /\ pickers'[i].animator.end_rect = HighlightTarget(pickers'[i])

EverRan(a) == a.active \/ a.start_rect # NullRectF

\* C31 as stated: a retarget of an animator on which no animation has ever run
\* sets start = end = current = the new rectangle and leaves it inactive; a
\* retarget of an animator that has run or is running keeps the current
\* rectangle and starts a new animation from it to the new rectangle.
C31_AsStated ==
    \A i \in 1..Len(pickers) : \A target \in RetargetRects :
        LET a == pickers[i].animator
            b == animate_to(a, target, now)
        IN  IF ~EverRan(a)
            THEN /\ b.start_rect = ToRectF(target)
                 /\ b.end_rect = ToRectF(target)
                 /\ b.current_rect = ToRectF(target)
                 /\ ~b.active
            ELSE /\ b.current_rect = a.current_rect
                 /\ b.start_rect = a.current_rect
                 /\ b.end_rect = ToRectF(target)
                 /\ b.start_time = now
                 /\ b.active


(***************************************************************************)
(* Further properties of the Window Picker.                                *)
(***************************************************************************)
\* the times at which a second delivery of an event may be handled
RedeliveryTimes == {now, now + Quantum}

\* C32: a pointer-move delivered a second time, at once or later, leaves the
\* picker as the first delivery left it: the highlighted node and rectangle,
\* the drill stack, the child cache and the animator (start, end, current,
\* start time, active) are the same, so a running animation is not restarted.
C32_MoveIdempotent ==
    \A i \in 1..Len(pickers) : pickers[i].visible =>
        \A pos \in env.pts : \A t \in RedeliveryTimes :
            Picker_move(Picker_move(pickers[i], env, pos, now), env, pos, t)
               = Picker_move(pickers[i], env, pos, now)

\* C32 witness: below R, with an animation towards A half-way, the move to the
\* pointer's position is delivered again 350 ms after the animation started
C32_Witness ==
    /\ Len(pickers) = 1
    /\ pickers[1].visible
    /\ pickers[1].parent_stack = << 1 >>
    /\ pickers[1].current_hwnd = 2
    /\ pickers[1].animator.active
    /\ now = pickers[1].animator.start_time + Quantum
    /\ ~RectFIsEmpty(pickers[1].animator.current_rect)
    /\ pickers[1].animator.current_rect # pickers[1].animator.end_rect
    /\ Picker_move(pickers[1], env, pickers[1].current_pos, now) = pickers[1]


(***************************************************************************)
(* Properties of an overlay instance's lifetime.                           *)
(***************************************************************************)
TerminalEvents ==
    {"region_selected", "element_selected", "cancelled", "switch_to_window",
     "switch_to_region"}

\* the terminal events of instance id of the given kind, pending or delivered
TerminalCount(kind, id) ==
    Cardinality({k \in 1..Len(timers) :
                    /\ timers[k].kind = kind /\ timers[k].id = id
                    /\ timers[k].cb \in TerminalEvents})
    + Cardinality({k \in 1..Len(delivered) :
                    /\ delivered[k].kind = kind /\ delivered[k].id = id
                    /\ delivered[k].cb \in TerminalEvents})

\* C33 as stated: an overlay instance schedules at most one confirm, cancel or
\* mode-switch event in its lifetime; once it has scheduled one it is hidden,
\* so that no later input reaches it.
C33_AsStated ==
    /\ \A i \in 1..Len(regions) :
          /\ TerminalCount("region", i) <= 1
          /\ TerminalCount("region", i) = 1 => ~regions[i].visible
    /\ \A i \in 1..Len(pickers) :
          /\ TerminalCount("picker", i) <= 1
          /\ TerminalCount("picker", i) = 1 => ~pickers[i].visible


\* node c is a direct child of node h in the host's hierarchy
IsDirectChild(c, h) ==
    \E k \in 1..Len(direct_children(env, h)) : direct_children(env, h)[k].hwnd = c

\* C34 as stated: the drill stack is a parent-child chain: its first entry is
\* a top-level Window Node, each later entry is a direct child of the entry
\* before it, and no window identifier appears in it twice.
C34_AsStated ==
    \A i \in 1..Len(pickers) :
        LET st == pickers[i].parent_stack
        IN  /\ st # << >> =>
                 \E k \in 1..Len(pickers[i].top_windows) :
                     pickers[i].top_windows[k].hwnd = st[1]
            /\ \A k \in 2..Len(st) : IsDirectChild(st[k], st[k - 1])
            /\ \A k, m \in 1..Len(st) : st[k] = st[m] => k = m


\* C35 as stated: whenever the picker has a highlighted node the animator's
\* target is that node's overlay-local rectangle, and whenever the highlight
\* is cleared no highlight rectangle is painted.
C35_AsStated ==
    \A i \in 1..Len(pickers) : pickers[i].visible =>
        /\ pickers[i].current_hwnd # 0
             => pickers[i].animator.end_rect = HighlightTarget(pickers[i])
        /\ pickers[i].current_hwnd = 0 => ~paints_highlight(pickers[i])


\* the rectangle of node h in the host's hierarchy, moved by the
\* virtual-desktop origin of the overlay p
NodeDisplayRect(p, h) ==
    RectXYWH(RectX(live_rect(env, h)) - RectX(p.desktop_geo),
             RectY(live_rect(env, h)) - RectY(p.desktop_geo),
             RectWidth(live_rect(env, h)), RectHeight(live_rect(env, h)))

ClockEnd == MaxTicks * Quantum

\* the picker is shown with node h highlighted, by an animation that started
\* early enough to finish before the clock stops
HighlightStays(h) ==
    /\ Len(pickers) = 1
    /\ pickers[1].visible
    /\ pickers[1].current_hwnd = h
    /\ pickers[1].animator.start_time + DURATION_MS <= ClockEnd

\* the animator is at rest on the highlighted node's overlay-local rectangle
Settled ==
    /\ Len(pickers) = 1
    /\ ~pickers[1].animator.active
    /\ pickers[1].animator.current_rect = HighlightTarget(pickers[1])

\* C37: while the picker is visible and its timer ticks, if the highlighted
\* node stops changing then the animator eventually becomes inactive with its
\* current rectangle equal to that node's overlay-local rectangle: from every
\* state with node h highlighted, the animator settles unless the highlight
\* changes or the picker is hidden first.
C37_AnimationSettles ==
    \A h \in {1, 2, 3} : HighlightStays(h) ~> (Settled \/ ~HighlightStays(h))

\* C37 witness: with A highlighted below R, the animator has come to rest on
\* the rectangle of A after the full duration
C37_Witness ==
    /\ HighlightStays(2)
    /\ Settled
    /\ pickers[1].animator.end_rect = ToRectF(RectXYWH(22, 22, 10, 10))
    /\ now >= pickers[1].animator.start_time + DURATION_MS


(***************************************************************************)
(* Further properties of the Region Selector.                              *)
(***************************************************************************)
\* guide coordinate g is the snap answer on an axis with the edge list edges
\* for the pointer's last reported position c, or for the press position pc of
\* the drag in progress
GuideMatches(g, edges, c, pressed, pc) ==
    \/ g = FirstEdgeWithin(edges, 1, c)
    \/ pressed /\ g = FirstEdgeWithin(edges, 1, pc)

\* C38 as stated: a snap guide coordinate is set on an axis only if snapping is
\* enabled and the most recent pointer position snapped on that axis to that
\* coordinate; with snapping disabled both guide coordinates are none.
C38_AsStated ==
    \A i \in 1..Len(regions) : regions[i].visible =>
        /\ regions[i].snapped_x # None
             => /\ regions[i].snap_enabled
                /\ GuideMatches(regions[i].snapped_x, regions[i].snap_edges_v,
                                regions[i].current_pos.x,
                                drag[i].state = "pressed", drag[i].p.x)
        /\ regions[i].snapped_y # None
             => /\ regions[i].snap_enabled
                /\ GuideMatches(regions[i].snapped_y, regions[i].snap_edges_h,
                                regions[i].current_pos.y,
                                drag[i].state = "pressed", drag[i].p.y)


\* the signal the overlay r schedules for a primary-button drag pressed at p,
\* moved to q and released at q
DragDecision(r, p, q) ==
    Region_release(Region_move(Region_press(r, "Left", p).r, q), "Left", q).sig

\* the overlay r in the other selection mode
OtherMode(r) ==
    [r EXCEPT !.mode = IF @ = "rectangle" THEN "freehand" ELSE "rectangle"]

\* snapping leaves the point pos of overlay r where it is
SnapHasNoEffect(r, pos) == snap_point(r, pos).pos = pos

\* C39 as stated: for the same press point p and release point q (the release
\* position also reported as a pointer move, snapping having no effect), an idle
\* overlay reaches the same confirm-or-cancel decision in rectangle mode and in
\* freehand mode.
C39_AsStated ==
    \A i \in 1..Len(regions) :
        (regions[i].visible /\ ~regions[i].selecting) =>
            \A p \in env.pts, q \in env.pts :
                (SnapHasNoEffect(regions[i], p) /\ SnapHasNoEffect(regions[i], q))
                    => DragDecision(regions[i], p, q)
                         = DragDecision(OtherMode(regions[i]), p, q)

=============================================================================
